---- MODULE Spec2Model ----
(***************************************************************************)
(* Verification model of the EPS chart extraction pipeline                 *)
(* (factset_report_analyzer): process_directory, the wide-table merge,     *)
(* the confidence engine and the upload of the two result tables; and of   *)
(* the process_directory of factset_data_collector, which keeps the two    *)
(* tables in local CSV files (specification SpecLegacy), and of main() of  *)
(* actions/workflow.py, which calls it (specification SpecWorkflow).       *)
(*                                                                         *)
(* Conventions                                                             *)
(*   - a report date is the integer YYYYMMDD; the ISO string, the          *)
(*     datetime and the %Y%m%d token of one date are one value, and a      *)
(*     report_date of 0 is the raw-filename placeholder that               *)
(*     get_report_date_from_filename returns for a name without a date     *)
(*   - a quarter label Q{q}'{yy} is the record [q |-> q, yy |-> yy]        *)
(*   - a cell of a wide table is nan (pandas NaN), the empty string, or    *)
(*     the text of a number with or without the trailing '*'               *)
(*   - a score is kept as the two integers [num, den] the code divides;    *)
(*     the Confidence is computed from them in floating point and kept in  *)
(*     tenths (1000 is 100.0)                                              *)
(***************************************************************************)
EXTENDS Integers, Sequences, FiniteSets, TLC

VARIABLES
    cloud_main,              \* extracted_estimates.csv as persisted
    cloud_conf,              \* extracted_estimates_confidence.csv as persisted
    pc,                      \* position of the pipeline
    image_files,             \* images selected for this run, in processing order
    idx,                     \* 1-based index of the next image of the loop
    existing_df,             \* wide table loaded at the start of the run
    existing_confidence_df,  \* confidence table loaded at the start of the run
    current_df,              \* accumulated wide table of the run
    all_long_results,        \* long records of every image processed so far
    outcomes,                \* per processed image: "merged", "nodata" or "error"
    conf_log,                \* scores computed by the confidence engine this run
    ret_main,                \* wide table returned by process_directory
    ret_conf,                \* confidence table returned by process_directory
    upload_status,           \* result of the last upload_results_to_cloud
    prior_main,              \* persisted wide table when the last upload began
    prior_conf,              \* persisted confidence table when the last upload began
    runs,                    \* number of runs started
    csv_read,                \* how reading output_csv ended when the run began
    output_csv,              \* the local file output/extracted_estimates.csv
    confidence_csv,          \* the local file output/extracted_estimates_confidence.csv
    args,                    \* arguments of the function under check
    result                   \* what the function under check returned

vars == <<cloud_main, cloud_conf, pc, image_files, idx, existing_df,
          existing_confidence_df, current_df, all_long_results, outcomes,
          conf_log, ret_main, ret_conf, upload_status, prior_main, prior_conf,
          runs, csv_read, output_csv, confidence_csv, args, result>>

----------------------------------------------------------------------------
(* Bounds *)

MaxRuns == 2      \* runs of the pipeline in one behaviour
MaxImages == 2    \* PNG files in the directory of one run
MaxPairs == 2     \* matched pairs of one image handed to classify_all_bars

----------------------------------------------------------------------------
(* Universe of values *)

Dates == {20161209, 20161216, 20161223}

Q4_13 == [q |-> 4, yy |-> 13]
Q1_14 == [q |-> 1, yy |-> 14]
Q2_14 == [q |-> 2, yy |-> 14]

\* A PNG file name: YYYYMMDD-{page}.png, YYYYMMDD.png (page 0), or a name
\* without an 8-digit date token (token 0, "chart.png").
FileNames ==
    { [token |-> d, page |-> p] : d \in Dates, p \in {0, 6} }
        \cup { [token |-> 0, page |-> 0] }

Rec(qt, e, color, conf) ==
    [quarter |-> qt, eps |-> e, bar_color |-> color, bar_confidence |-> conf]

\* What matching and bar classification find in each image (the chart an
\* image shows is fixed once the image is captured).  bar_confidence "none"
\* is a result without that key.
ChartOf(f) ==
    CASE f = [token |-> 20161209, page |-> 6] ->
            << Rec(Q1_14, 10, "dark", "high"), Rec(Q2_14, 20, "light", "medium") >>
      [] f = [token |-> 20161209, page |-> 0] ->
            << Rec(Q1_14, 20, "dark", "medium") >>
      [] f = [token |-> 20161216, page |-> 6] ->
            << Rec(Q1_14, 11, "dark", "high"), Rec(Q2_14, 20, "dark", "low") >>
      [] f = [token |-> 20161216, page |-> 0] ->
            << >>
      [] f = [token |-> 20161223, page |-> 6] ->
            << Rec(Q4_13, 10, "dark", "medium"), Rec(Q4_13, 20, "light", "high"),
               Rec(Q1_14, 12, "dark", "high") >>
      [] f = [token |-> 20161223, page |-> 0] ->
            << Rec(Q1_14, 12, "dark", "none") >>
      [] OTHER ->
            << Rec(Q1_14, 10, "dark", "high") >>

----------------------------------------------------------------------------
(* Cells and tables *)

nan == [kind |-> "nan", eps |-> 0, star |-> FALSE]
empty_str == [kind |-> "empty", eps |-> 0, star |-> FALSE]
NumCell(e, starred) == [kind |-> "num", eps |-> e, star |-> starred]

\* pd.DataFrame(columns=['Report_Date']); also stands for None, which every
\* branch of the code treats like an empty frame.
empty_df == [cols |-> << >>, rows |-> << >>]
empty_conf == << >>

\* DataFrame.empty
IsEmpty(df) == Len(df.rows) = 0

Range(s) == { s[i] : i \in DOMAIN s }

DatesOf(df) == { df.rows[i].Report_Date : i \in DOMAIN df.rows }
ConfDates(cf) == { cf[i].Report_Date : i \in DOMAIN cf }

RowOf(df, d) == df.rows[CHOOSE i \in DOMAIN df.rows : df.rows[i].Report_Date = d]
ConfOf(cf, d) == cf[CHOOSE i \in DOMAIN cf : cf[i].Report_Date = d].Confidence

\* pd.to_datetime raises on the raw-filename placeholder
Parseable(d) == d \in Dates

TupleLess(a, b) == a[1] < b[1] \/ (a[1] = b[1] /\ a[2] < b[2])

----------------------------------------------------------------------------
(* Per-image extraction *)

\* First 8-digit token read as YYYYMMDD; the raw filename (0) when the name
\* has no such token.
get_report_date_from_filename(f) ==
    IF f.token \in Dates THEN f.token ELSE 0

\* process_image: ocr_ok = FALSE is any of the outcomes that make the image
\* yield nothing (no OCR fragments, unreadable image, an exception caught at
\* the end of the function).
process_image(f, ocr_ok) ==
    IF ~ocr_ok
    THEN << >>
    ELSE [ i \in 1..Len(ChartOf(f)) |->
             [ report_date    |-> get_report_date_from_filename(f),
               quarter        |-> ChartOf(f)[i].quarter,
               eps            |-> ChartOf(f)[i].eps,
               is_estimate    |-> TRUE,
               bar_color      |-> ChartOf(f)[i].bar_color,
               bar_confidence |-> ChartOf(f)[i].bar_confidence ] ]

----------------------------------------------------------------------------
(* Wide-format conversion and merge *)

_parse_quarter_for_sort(quarter) == << 2000 + quarter.yy, quarter.q >>

\* sorted(cols, key=_parse_quarter_for_sort): a stable insertion sort
RECURSIVE InsertCol(_, _)
InsertCol(sorted, c) ==
    IF sorted = << >> THEN << c >>
    ELSE IF TupleLess(_parse_quarter_for_sort(c), _parse_quarter_for_sort(Head(sorted)))
         THEN << c >> \o sorted
         ELSE << Head(sorted) >> \o InsertCol(Tail(sorted), c)

\* Mutant of SortCols: the columns stay in the order of the concatenation
cols_unsorted(s) == s

RECURSIVE SortCols(_)
SortCols(s) ==
    IF s = << >> THEN << >>
    ELSE InsertCol(SortCols(SubSeq(s, 1, Len(s) - 1)), s[Len(s)])

\* the order of two Report_Date values: datetimes by time, and strings
\* as strings, where every ISO date comes before the raw filename
\* "chart.png"
DateBefore(a, b) == a # 0 /\ (b = 0 \/ a < b)

\* sorted(dates)[0]
FirstDate(S) == CHOOSE d \in S : \A e \in S : ~DateBefore(e, d)

\* sort_values('Report_Date') on rows (of either table), and the order in
\* which pivot_table lists its index
RECURSIVE InsertRow(_, _)
InsertRow(sorted, r) ==
    IF sorted = << >> THEN << r >>
    ELSE IF DateBefore(r.Report_Date, Head(sorted).Report_Date)
         THEN << r >> \o sorted
         ELSE << Head(sorted) >> \o InsertRow(Tail(sorted), r)

\* Mutant of SortRows: the rows stay in the order of the concatenation
rows_in_merge_order(s) == s

RECURSIVE SortRows(_)
SortRows(s) ==
    IF s = << >> THEN << >>
    ELSE InsertRow(SortRows(SubSeq(s, 1, Len(s) - 1)), s[Len(s)])

\* Mutant of DropDuplicatesKeepLast: keep='first'
RECURSIVE DropDuplicatesKeepFirst(_)
DropDuplicatesKeepFirst(s) ==
    IF s = << >> THEN << >>
    ELSE LET init == DropDuplicatesKeepFirst(SubSeq(s, 1, Len(s) - 1))
         IN IF \E j \in 1..(Len(s) - 1) : s[j].Report_Date = s[Len(s)].Report_Date
            THEN init ELSE Append(init, s[Len(s)])

\* drop_duplicates(subset=['Report_Date'], keep='last')
RECURSIVE DropDuplicatesKeepLast(_)
DropDuplicatesKeepLast(s) ==
    IF s = << >> THEN << >>
    ELSE IF \E j \in 2..Len(s) : s[j].Report_Date = Head(s).Report_Date
         THEN DropDuplicatesKeepLast(Tail(s))
         ELSE << Head(s) >> \o DropDuplicatesKeepLast(Tail(s))

\* Distinct elements of a sequence in order of first appearance
RECURSIVE Distinct(_)
Distinct(s) ==
    IF s = << >> THEN << >>
    ELSE LET init == Distinct(SubSeq(s, 1, Len(s) - 1))
         IN IF s[Len(s)] \in Range(init) THEN init ELSE Append(init, s[Len(s)])

\* eps_str of one long record: the number, with '*' when the bar is light
eps_str(r) == NumCell(r.eps, r.bar_color = "light")

\* aggfunc='first' of the pivot: the first record of (date, quarter)
FirstIndex(df, d, qt) ==
    CHOOSE i \in DOMAIN df :
        /\ df[i].report_date = d /\ df[i].quarter = qt
        /\ \A j \in 1..(i - 1) : ~(df[j].report_date = d /\ df[j].quarter = qt)

\* the pivot taking the last record of (date, quarter)
pivot_cell_last(df, d, qt) ==
    IF \E i \in DOMAIN df : df[i].report_date = d /\ df[i].quarter = qt
    THEN eps_str(df[CHOOSE i \in DOMAIN df :
                      /\ df[i].report_date = d /\ df[i].quarter = qt
                      /\ \A j \in (i + 1)..Len(df) :
                            ~(df[j].report_date = d /\ df[j].quarter = qt)])
    ELSE empty_str

PivotCell(df, d, qt) ==
    IF \E i \in DOMAIN df : df[i].report_date = d /\ df[i].quarter = qt
    THEN eps_str(df[FirstIndex(df, d, qt)])
    ELSE empty_str                                  \* fillna('')

\* The pivot of convert_to_wide_format: one row per report_date, one column
\* per quarter in sorted order, the first record of a (date, quarter) in its
\* cell.  (pivot_table first orders the columns by label; the sort by
\* _parse_quarter_for_sort that follows decides the final order.)
PivotWide(df) ==
    IF df = << >> THEN empty_df
    ELSE LET quarter_columns == SortCols(Distinct([i \in DOMAIN df |-> df[i].quarter]))
             dates == Distinct([i \in DOMAIN df |-> df[i].report_date])
             rows  == [ i \in DOMAIN dates |->
                          [ Report_Date |-> dates[i],
                            cells |-> [ qt \in Range(quarter_columns) |->
                                          PivotCell(df, dates[i], qt) ] ] ]
         IN [cols |-> quarter_columns, rows |-> SortRows(rows)]

\* convert_to_wide_format: [ok, df]; ok = FALSE when pd.to_datetime raises
\* on the Report_Date column.
convert_to_wide_format(df) ==
    IF \E i \in DOMAIN df : ~Parseable(df[i].report_date)
    THEN [ok |-> FALSE, df |-> empty_df]
    ELSE [ok |-> TRUE, df |-> PivotWide(df)]

\* A row reindexed on the columns of a concatenation: absent cells are NaN
Reindex(row, cols) ==
    [ Report_Date |-> row.Report_Date,
      cells |-> [ qt \in Range(cols) |->
                    IF qt \in DOMAIN row.cells THEN row.cells[qt] ELSE nan ] ]

\* pd.concat([a, b], ignore_index=True)
Concat(a, b) ==
    LET cols == Distinct(a.cols \o b.cols)
        rows == a.rows \o b.rows
    IN [cols |-> cols, rows |-> [ i \in DOMAIN rows |-> Reindex(rows[i], cols) ]]

_merge_data(current, new) ==
    IF IsEmpty(current) THEN new
    ELSE IF IsEmpty(new) THEN current
    ELSE LET cat == Concat(current, new)
         IN [cols |-> SortCols(cat.cols),
             rows |-> SortRows(DropDuplicatesKeepLast(cat.rows))]

----------------------------------------------------------------------------
(* Confidence engine *)

Abs(x) == IF x < 0 THEN -x ELSE x
Max(a, b) == IF a >= b THEN a ELSE b
Min(a, b) == IF a <= b THEN a ELSE b
MinOf(S) == CHOOSE x \in S : \A y \in S : x <= y
MaxOf(S) == CHOOSE x \in S : \A y \in S : x >= y

RECURSIVE SumSeq(_)
SumSeq(s) == IF s = << >> THEN 0 ELSE Head(s) + SumSeq(Tail(s))

Rat(n, d) == [num |-> n, den |-> d]

(* Python floats (IEEE 754 binary64).  A natural number too large for an   *)
(* integer here is kept as its digits in base 2^15, least significant       *)
(* first, the last digit not 0, and 0 as << >>.  A float x >= 0 is 0.0      *)
(* (m = << >>) or m * 2^exp with m a number of exactly 53 bits.  Every      *)
(* operation gives the float nearest to the exact result, a tie going to    *)
(* the even m.                                                              *)

Base == 32768

ZeroFloat == [m |-> << >>, exp |-> 0]

RECURSIVE Pow2(_)
Pow2(k) == IF k = 0 THEN 1 ELSE 2 * Pow2(k - 1)

\* number of bits of the integer v
RECURSIVE BitLen(_)
BitLen(v) == IF v = 0 THEN 0 ELSE 1 + BitLen(v \div 2)

\* the digit at place i, 0 outside the number
Digit(n, i) == IF i \in DOMAIN n THEN n[i] ELSE 0

\* the digits without zeros at the most significant end
RECURSIVE Trim(_)
Trim(n) ==
    IF n = << >> THEN n
    ELSE IF n[Len(n)] # 0 THEN n
    ELSE Trim(SubSeq(n, 1, Len(n) - 1))

\* the integer a small number stands for
RECURSIVE BigValue(_)
BigValue(n) == IF n = << >> THEN 0 ELSE Head(n) + Base * BigValue(Tail(n))

BigBitLen(n) ==
    IF n = << >> THEN 0 ELSE 15 * (Len(n) - 1) + BitLen(n[Len(n)])

\* n * c + carry for an integer c < 2^15
RECURSIVE BigTimes(_, _, _)
BigTimes(n, c, carry) ==
    IF n = << >> THEN (IF carry = 0 THEN << >> ELSE << carry >>)
    ELSE << (Head(n) * c + carry) % Base >>
           \o BigTimes(Tail(n), c, (Head(n) * c + carry) \div Base)

\* a + b + carry
RECURSIVE BigAdd(_, _, _)
BigAdd(a, b, carry) ==
    IF a = << >> /\ b = << >> THEN (IF carry = 0 THEN << >> ELSE << carry >>)
    ELSE << (Digit(a, 1) + Digit(b, 1) + carry) % Base >>
           \o BigAdd(IF a = << >> THEN a ELSE Tail(a),
                     IF b = << >> THEN b ELSE Tail(b),
                     (Digit(a, 1) + Digit(b, 1) + carry) \div Base)

\* bit k of n, bit 0 the least significant
BigBit(n, k) == (Digit(n, (k \div 15) + 1) \div Pow2(k % 15)) % 2

\* n mod 2^s = 0
BigLowZero(n, s) ==
    /\ \A i \in 1..(s \div 15) : Digit(n, i) = 0
    /\ Digit(n, (s \div 15) + 1) % Pow2(s % 15) = 0

\* n div 2^s
BigShiftRight(n, s) ==
    Trim([ i \in 1..(Len(n) - (s \div 15)) |->
             (Digit(n, i + (s \div 15)) \div Pow2(s % 15))
               + (Digit(n, i + (s \div 15) + 1) % Pow2(s % 15)) * Pow2(15 - (s % 15)) ])

\* n * 2^s
BigShiftLeft(n, s) ==
    Trim([ i \in 1..(Len(n) + (s \div 15) + 1) |->
             (Digit(n, i - (s \div 15)) % Pow2(15 - (s % 15))) * Pow2(s % 15)
               + (Digit(n, i - (s \div 15) - 1) \div Pow2(15 - (s % 15))) ])

\* a number of 53 bits after an increment: 2^53 is 2^52 with the exponent
\* one higher
Carried(m, exp) ==
    IF BigBitLen(m) > 53 THEN [m |-> BigShiftRight(m, 1), exp |-> exp + 1]
    ELSE [m |-> m, exp |-> exp]

\* whether n, cut to its 53 leading bits, goes up: the first bit cut off is
\* 1 and either more follows (in n or beyond it: sticky) or the last bit
\* kept is 1
RoundsUp(n, s, sticky) ==
    /\ BigBit(n, s - 1) = 1
    /\ (sticky \/ ~BigLowZero(n, s - 1) \/ BigBit(n, s) = 1)

\* the float nearest to n * 2^exp for n > 0; sticky says that the exact
\* number is a little more than n * 2^exp (n then has more than 53 bits)
NearestFloat(n, exp, sticky) ==
    IF BigBitLen(n) <= 53
    THEN [m |-> BigShiftLeft(n, 53 - BigBitLen(n)), exp |-> exp - (53 - BigBitLen(n))]
    ELSE IF RoundsUp(n, BigBitLen(n) - 53, sticky)
    THEN Carried(BigAdd(BigShiftRight(n, BigBitLen(n) - 53), << 1 >>, 0),
                 exp + BigBitLen(n) - 53)
    ELSE [m |-> BigShiftRight(n, BigBitLen(n) - 53), exp |-> exp + BigBitLen(n) - 53]

\* the first k digits after the point of rem / q, for 0 <= rem < q
RECURSIVE QuotientDigits(_, _, _)
QuotientDigits(rem, q, k) ==
    IF k = 0 THEN << >>
    ELSE Append(QuotientDigits((rem * Base) % q, q, k - 1), (rem * Base) \div q)

\* what is left of rem / q after those k digits
RECURSIVE QuotientRem(_, _, _)
QuotientRem(rem, q, k) ==
    IF k = 0 THEN rem ELSE QuotientRem((rem * Base) % q, q, k - 1)

\* p / q written as (p' / q') * 2^e with 1 <= p' / q' < 2
RECURSIVE Scaled(_, _, _)
Scaled(p, q, e) ==
    IF p < q THEN Scaled(2 * p, q, e - 1)
    ELSE IF p >= 2 * q THEN Scaled(p, 2 * q, e + 1)
    ELSE [p |-> p, q |-> q, e |-> e]

QuotientFloat(s) ==
    NearestFloat(Append(QuotientDigits(s.p - s.q, s.q, 4), 1), s.e - 60,
                 QuotientRem(s.p - s.q, s.q, 4) # 0)

\* p / q of two floats that hold the integers p >= 0 and q > 0
TrueDiv(p, q) == IF p = 0 THEN ZeroFloat ELSE QuotientFloat(Scaled(p, q, 0))

\* x * c for a float c that holds a positive integer
TimesInt(x, c) ==
    IF x.m = << >> THEN x ELSE NearestFloat(BigTimes(x.m, c, 0), x.exp, FALSE)

\* x * 0.5
Half(x) == IF x.m = << >> THEN x ELSE [m |-> x.m, exp |-> x.exp - 1]

\* hi + lo when the exponent of hi is not below that of lo
AddAligned(hi, lo) ==
    NearestFloat(BigAdd(BigShiftLeft(hi.m, hi.exp - lo.exp), lo.m, 0), lo.exp, FALSE)

\* x + y
FloatAdd(x, y) ==
    IF x.m = << >> THEN y
    ELSE IF y.m = << >> THEN x
    ELSE IF x.exp >= y.exp THEN AddAligned(x, y)
    ELSE AddAligned(y, x)

\* the digits of the integer v >= 0
RECURSIVE BigOf(_)
BigOf(v) == IF v = 0 THEN << >> ELSE << v % Base >> \o BigOf(v \div Base)

\* a < b
BigLess(a, b) ==
    \/ Len(a) < Len(b)
    \/ /\ Len(a) = Len(b)
       /\ \E i \in DOMAIN a :
             a[i] < b[i] /\ \A j \in (i + 1)..Len(a) : a[j] = b[j]

\* a - b - borrow for a >= b + borrow, before the leading zeros are cut
RECURSIVE BigMinus(_, _, _)
BigMinus(a, b, borrow) ==
    IF a = << >> THEN << >>
    ELSE << (Head(a) - Digit(b, 1) - borrow + Base) % Base >>
           \o BigMinus(Tail(a), IF b = << >> THEN b ELSE Tail(b),
                       IF Head(a) - Digit(b, 1) - borrow < 0 THEN 1 ELSE 0)

\* a * b, before the leading zeros are cut
RECURSIVE BigProduct(_, _)
BigProduct(a, b) ==
    IF b = << >> THEN << >>
    ELSE BigAdd(BigTimes(a, Head(b), 0), << 0 >> \o BigProduct(a, Tail(b)), 0)

BigMul(a, b) == Trim(BigProduct(a, b))

\* r with bit k set, for an r whose bit k is 0
WithBit(r, k) == BigAdd(r, BigShiftLeft(<< 1 >>, k), 0)

\* the largest r with r * r <= n among the numbers that agree with r above
\* bit k: the bits are decided from bit k down
RECURSIVE BigSqrtFrom(_, _, _)
BigSqrtFrom(n, r, k) ==
    IF k < 0 THEN r
    ELSE IF BigLess(n, BigMul(WithBit(r, k), WithBit(r, k)))
    THEN BigSqrtFrom(n, r, k - 1)
    ELSE BigSqrtFrom(n, WithBit(r, k), k - 1)

\* float(v) of an integer v >= 0
FloatOfInt(v) == IF v = 0 THEN ZeroFloat ELSE NearestFloat(BigOf(v), 0, FALSE)

\* x * y
FloatTimes(x, y) ==
    IF x.m = << >> \/ y.m = << >> THEN ZeroFloat
    ELSE NearestFloat(BigMul(x.m, y.m), x.exp + y.exp, FALSE)

\* x < y
FloatLess(x, y) ==
    /\ y.m # << >>
    /\ \/ x.m = << >>
       \/ x.exp < y.exp
       \/ (x.exp = y.exp /\ BigLess(x.m, y.m))

\* hi - lo for the numbers hi >= lo > 0 of one exponent
MinusAligned(hi, lo, exp) ==
    IF hi = lo THEN ZeroFloat ELSE NearestFloat(Trim(BigMinus(hi, lo, 0)), exp, FALSE)

\* |x - y| for x, y > 0
FloatDistance(x, y) ==
    IF BigLess(BigShiftLeft(x.m, x.exp - Min(x.exp, y.exp)),
               BigShiftLeft(y.m, y.exp - Min(x.exp, y.exp)))
    THEN MinusAligned(BigShiftLeft(y.m, y.exp - Min(x.exp, y.exp)),
                      BigShiftLeft(x.m, x.exp - Min(x.exp, y.exp)),
                      Min(x.exp, y.exp))
    ELSE MinusAligned(BigShiftLeft(x.m, x.exp - Min(x.exp, y.exp)),
                      BigShiftLeft(y.m, y.exp - Min(x.exp, y.exp)),
                      Min(x.exp, y.exp))

\* x - y as a sign and a float: neg says that the difference is below 0
FloatMinus(x, y) ==
    IF y.m = << >> THEN [neg |-> FALSE, abs |-> x]
    ELSE IF x.m = << >> THEN [neg |-> TRUE, abs |-> y]
    ELSE [neg |-> FloatLess(x, y), abs |-> FloatDistance(x, y)]

\* the number of bits the mantissa of x is shifted by before its root is
\* taken, which leaves an even exponent and gives a root of 54 bits
RootShift(x) == IF (x.exp - 54) % 2 = 0 THEN 54 ELSE 55

\* the root of m * 2^exp from the integer root of m, which is exact when its
\* square is m
RootFloat(m, root, exp) == NearestFloat(root, exp \div 2, BigMul(root, root) # m)

\* math.sqrt(x)
FloatSqrt(x) ==
    IF x.m = << >> THEN ZeroFloat
    ELSE RootFloat(BigShiftLeft(x.m, RootShift(x)),
                   BigSqrtFrom(BigShiftLeft(x.m, RootShift(x)), << >>, 53),
                   x.exp - RootShift(x))

\* the integer nearest to q + (half_bit + rest) / 2, a tie going to the even one
NearestInt(q, half_bit, rest) ==
    IF half_bit = 0 THEN q
    ELSE IF rest THEN q + 1
    ELSE IF q % 2 = 0 THEN q ELSE q + 1

\* the integer nearest to n / 2^f
NearestIntOf(n, f) ==
    IF f <= 0 THEN BigValue(BigShiftLeft(n, -f))
    ELSE NearestInt(BigValue(BigShiftRight(n, f)), BigBit(n, f - 1),
                    ~BigLowZero(n, f - 1))

\* round(x, 1) of a float x >= 0, in tenths: the tenth nearest to the value
\* the float holds, a tie going to the even tenth
round_1(x) ==
    IF x.m = << >> THEN 0 ELSE NearestIntOf(BigTimes(x.m, 10, 0), -x.exp)

\* the rows of a long frame with the given report_date, in order
DateData(df_long, d) == SelectSeq(df_long, LAMBDA r : r.report_date = d)

\* 'bar_confidence' in df.columns / 'bar_color' in df.columns: the column
\* exists when some record of the frame carries the key.
HasColumn_bar_confidence(df_long) ==
    \E i \in DOMAIN df_long : df_long[i].bar_confidence # "none"
HasColumn_bar_color(df_long) ==
    \E i \in DOMAIN df_long : df_long[i].bar_color # "none"

\* scores.get(conf, 0.0)
BarScoreOf(conf) ==
    CASE conf = "high" -> 100
      [] conf = "medium" -> 67
      [] conf = "low" -> 33
      [] OTHER -> 0

\* Mutant of _calculate_bar_score: the sum of the scores, not their mean
calculate_bar_score_sum(date_data, df_long) ==
    IF ~HasColumn_bar_confidence(df_long) THEN Rat(0, 1)
    ELSE Rat(SumSeq([ i \in DOMAIN date_data |->
                        BarScoreOf(date_data[i].bar_confidence) ]), 1)

\* _calculate_bar_score(date_data); df_long decides whether the column exists
_calculate_bar_score(date_data, df_long) ==
    IF ~HasColumn_bar_confidence(df_long) THEN Rat(0, 1)
    ELSE IF date_data = << >> THEN Rat(0, 1)
    ELSE Rat(SumSeq([ i \in DOMAIN date_data |->
                        BarScoreOf(date_data[i].bar_confidence) ]),
             Len(date_data))

\* str(cell) is skipped by `not val or '*' in val`
SkippedVal(cell) == cell.kind = "empty" \/ (cell.kind = "num" /\ cell.star)

\* abs(curr - prev) / max(abs(prev), 0.01) <= 0.2 ; float('nan') never matches
EpsMatch(curr, prev) ==
    /\ curr.kind = "num" /\ prev.kind = "num"
    /\ 500 * Abs(curr.eps - prev.eps) <= Max(100 * Abs(prev.eps), 1)

\* Mutant of calculate_consistency_with_previous_week_wide: the previous row
\* is the earliest row of the table, not the closest one before current_date
consistency_with_first_row(current_date, current_data, df_long, full_df_wide) ==
    LET previous_dates == { d \in DatesOf(full_df_wide) : d < current_date }
    IN IF previous_dates = {} THEN Rat(0, 1)
       ELSE IF current_date \notin DatesOf(full_df_wide) THEN Rat(0, 1)
       ELSE
       LET current_row  == RowOf(full_df_wide, current_date)
           previous_row == RowOf(full_df_wide, MinOf(previous_dates))
           actual_quarters ==
               IF HasColumn_bar_color(df_long)
               THEN { current_data[i].quarter :
                        i \in { j \in DOMAIN current_data :
                                  current_data[j].bar_color = "dark" } }
               ELSE {}
           compared == { qt \in actual_quarters :
                           /\ qt \in Range(full_df_wide.cols)
                           /\ ~SkippedVal(current_row.cells[qt])
                           /\ ~SkippedVal(previous_row.cells[qt]) }
           matched == { qt \in compared :
                          EpsMatch(current_row.cells[qt], previous_row.cells[qt]) }
       IN IF actual_quarters = {} THEN Rat(0, 1)
          ELSE IF compared = {} THEN Rat(0, 1)
          ELSE Rat(100 * Cardinality(matched), Cardinality(compared))

calculate_consistency_with_previous_week_wide(current_date, current_data, df_long, full_df_wide) ==
    LET previous_dates == { d \in DatesOf(full_df_wide) : d < current_date }
    IN IF previous_dates = {} THEN Rat(0, 1)
       ELSE IF current_date \notin DatesOf(full_df_wide) THEN Rat(0, 1)
       ELSE
       LET current_row  == RowOf(full_df_wide, current_date)
           previous_row == RowOf(full_df_wide, MaxOf(previous_dates))
           actual_quarters ==
               IF HasColumn_bar_color(df_long)
               THEN { current_data[i].quarter :
                        i \in { j \in DOMAIN current_data :
                                  current_data[j].bar_color = "dark" } }
               ELSE {}
           compared == { qt \in actual_quarters :
                           /\ qt \in Range(full_df_wide.cols)
                           /\ ~SkippedVal(current_row.cells[qt])
                           /\ ~SkippedVal(previous_row.cells[qt]) }
           matched == { qt \in compared :
                          EpsMatch(current_row.cells[qt], previous_row.cells[qt]) }
       IN IF actual_quarters = {} THEN Rat(0, 1)
          ELSE IF compared = {} THEN Rat(0, 1)
          ELSE Rat(100 * Cardinality(matched), Cardinality(compared))

\* Mutant of ScoresOf: the first report date is compared like any other
ScoresOf_no_first_date(report_date, df_long, consistency_df) ==
    LET date_data == DateData(df_long, report_date)
    IN [ Report_Date |-> report_date,
         has_data    |-> date_data # << >>,
         bar         |-> _calculate_bar_score(date_data, df_long),
         consistency |-> calculate_consistency_with_previous_week_wide(
                             report_date, date_data, df_long, consistency_df) ]

\* bar_score and consistency_score of one report date
ScoresOf(report_date, df_long, consistency_df) ==
    LET date_data  == DateData(df_long, report_date)
        first_date == MinOf(DatesOf(consistency_df))
    IN [ Report_Date |-> report_date,
         has_data    |-> date_data # << >>,
         bar         |-> _calculate_bar_score(date_data, df_long),
         consistency |-> IF report_date = first_date THEN Rat(100, 1)
                         ELSE calculate_consistency_with_previous_week_wide(
                                  report_date, date_data, df_long, consistency_df) ]

\* sum(bar_scores) / len(bar_scores), or 0.0
BarScoreFloat(bar) == TrueDiv(bar.num, bar.den)

\* matches / total * 100.0, or the 100.0 and 0.0 written in the code; the
\* score is kept as 100 * matches over total
ConsistencyFloat(consistency) ==
    TimesInt(TrueDiv(consistency.num \div 100, consistency.den), 100)

\* round((bar_score * 0.5) + (consistency_score * 0.5), 1)
ConfidenceOf(sc) ==
    IF ~sc.has_data THEN 0
    ELSE round_1(FloatAdd(Half(BarScoreFloat(sc.bar)),
                          Half(ConsistencyFloat(sc.consistency))))

calculate_confidence_dataframe(df_wide, df_long, full_df_wide) ==
    [ i \in DOMAIN df_wide.rows |->
        [ Report_Date |-> df_wide.rows[i].Report_Date,
          Confidence  |-> ConfidenceOf(ScoresOf(df_wide.rows[i].Report_Date,
                                                df_long, full_df_wide)) ] ]

\* the rows of current_df whose date is one of new_dates
NewRows(current, df_long) ==
    [ cols |-> current.cols,
      rows |-> SelectSeq(current.rows,
                  LAMBDA r : \E i \in DOMAIN df_long :
                                 df_long[i].report_date = r.Report_Date) ]

\* _calculate_new_confidence: [ok, conf]; ok = FALSE when pd.to_datetime
\* raises on a report_date; conf = << >> stands for None.
_calculate_new_confidence(long_results, current) ==
    IF long_results = << >> THEN [ok |-> TRUE, conf |-> empty_conf]
    ELSE IF \E i \in DOMAIN long_results : ~Parseable(long_results[i].report_date)
    THEN [ok |-> FALSE, conf |-> empty_conf]
    ELSE IF IsEmpty(NewRows(current, long_results))
    THEN [ok |-> TRUE, conf |-> empty_conf]
    ELSE [ok |-> TRUE,
          conf |-> calculate_confidence_dataframe(
                       NewRows(current, long_results), long_results, current)]

\* Mutant of _merge_confidence: the new rows replace the existing table
merge_confidence_new_only(existing, new) ==
    IF new = << >> THEN existing ELSE new

\* Mutant of _merge_confidence: no new confidence returns no table
merge_confidence_none_is_empty(existing, new) ==
    IF new = << >> THEN << >>
    ELSE IF existing = << >> THEN new
    ELSE SortRows(DropDuplicatesKeepLast(existing \o new))

_merge_confidence(existing, new) ==
    IF existing = << >> THEN new
    ELSE IF new = << >> THEN existing
    ELSE SortRows(DropDuplicatesKeepLast(existing \o new))

----------------------------------------------------------------------------
(* Storage *)

\* DataFrame.to_csv followed by read_csv: an empty string and NaN are both
\* written as an empty field, which is read back as NaN.
CsvCell(c) == IF c.kind = "empty" THEN nan ELSE c

CsvRoundTrip(df) ==
    [ cols |-> df.cols,
      rows |-> [ i \in DOMAIN df.rows |->
                   [ Report_Date |-> df.rows[i].Report_Date,
                     cells |-> [ qt \in DOMAIN df.rows[i].cells |->
                                   CsvCell(df.rows[i].cells[qt]) ] ] ] ]

\* write_csv_to_cloud(df, key) when it succeeds: the object is replaced whole
write_csv_to_cloud(df) == CsvRoundTrip(df)

----------------------------------------------------------------------------
(* process_directory *)

\* Order of sorted(directory.glob('*.png')): by name, so by date token, a
\* name "YYYYMMDD-6.png" before "YYYYMMDD.png" ('-' sorts before '.'), and
\* the name without digits after every date.
NameKey(f) == << IF f.token = 0 THEN 99999999 ELSE f.token,
                 IF f.page = 0 THEN 1 ELSE 0 >>

RECURSIVE SortedNames(_)
SortedNames(S) ==
    IF S = {} THEN << >>
    ELSE LET f == CHOOSE x \in S : \A y \in S \ {x} : TupleLess(NameKey(x), NameKey(y))
         IN << f >> \o SortedNames(S \ {f})

\* img.stem in processed_dates: the stem is exactly the %Y%m%d of a row
StemProcessed(f, df) == f.page = 0 /\ f.token \in DatesOf(df)

\* _get_images_to_process with limit=None
_get_images_to_process(directory, df) ==
    SelectSeq(SortedNames(directory), LAMBDA f : ~StemProcessed(f, df))

\* Lines 162-189: load the existing tables, select the images, and return at
\* once when there is none.
StartRun(directory) ==
    /\ UNCHANGED <<args, result, output_csv, confidence_csv>>
    /\ pc \in {"idle", "aborted"}
    /\ runs < MaxRuns
    /\ runs' = runs + 1
    /\ existing_df' = cloud_main
    /\ existing_confidence_df' = cloud_conf
    /\ image_files' = _get_images_to_process(directory, cloud_main)
    /\ idx' = 1
    /\ all_long_results' = << >>
    /\ outcomes' = << >>
    /\ conf_log' = << >>
    /\ current_df' = cloud_main
    /\ IF image_files' = << >>
       THEN /\ pc' = "returned"
            /\ ret_main' = cloud_main
            /\ ret_conf' = cloud_conf
       ELSE /\ pc' = "loop"
            /\ ret_main' = empty_df
            /\ ret_conf' = empty_conf
    /\ UNCHANGED <<cloud_main, cloud_conf, upload_status, prior_main, prior_conf,
                   csv_read>>

\* Lines 191-215: one iteration of the loop over image_files
ProcessImage(ocr_ok) ==
    /\ UNCHANGED <<args, result, output_csv, confidence_csv>>
    /\ pc = "loop"
    /\ idx <= Len(image_files)
    /\ LET results == process_image(image_files[idx], ocr_ok)
           new_df  == convert_to_wide_format(results)
       IN IF results = << >>
          THEN /\ outcomes' = Append(outcomes, "nodata")
               /\ UNCHANGED <<all_long_results, current_df>>
          ELSE /\ all_long_results' = all_long_results \o results
               /\ IF new_df.ok
                  THEN /\ current_df' = _merge_data(current_df, new_df.df)
                       /\ outcomes' = Append(outcomes, "merged")
                  ELSE /\ current_df' = current_df         \* except Exception
                       /\ outcomes' = Append(outcomes, "error")
    /\ idx' = idx + 1
    /\ UNCHANGED <<cloud_main, cloud_conf, pc, image_files, existing_df,
                   existing_confidence_df, conf_log, ret_main, ret_conf,
                   upload_status, prior_main, prior_conf, runs, csv_read>>

\* the scores behind the rows of _calculate_new_confidence
NewScores(long_results, current) ==
    LET nw == NewRows(current, long_results)
    IN [ i \in DOMAIN nw.rows |->
           ScoresOf(nw.rows[i].Report_Date, long_results, current) ]

\* Lines 217-245: after the loop, compute and merge the confidence and return
Finish ==
    /\ UNCHANGED <<args, result, output_csv, confidence_csv>>
    /\ pc = "loop"
    /\ idx > Len(image_files)
    /\ LET new_conf == _calculate_new_confidence(all_long_results, current_df)
       IN IF IsEmpty(current_df)
          THEN /\ pc' = "returned"
               /\ ret_main' = IF IsEmpty(existing_df) THEN empty_df ELSE existing_df
               /\ ret_conf' = IF IsEmpty(existing_df) THEN empty_conf
                              ELSE existing_confidence_df
               /\ conf_log' = << >>
          ELSE IF ~new_conf.ok
          THEN /\ pc' = "aborted"                 \* the exception leaves the function
               /\ UNCHANGED <<ret_main, ret_conf, conf_log>>
          ELSE /\ pc' = "returned"
               /\ ret_main' = current_df
               /\ ret_conf' = _merge_confidence(existing_confidence_df, new_conf.conf)
               /\ conf_log' = IF new_conf.conf = << >> THEN << >>
                              ELSE NewScores(all_long_results, current_df)
    /\ UNCHANGED <<cloud_main, cloud_conf, image_files, idx, existing_df,
                   existing_confidence_df, current_df, all_long_results, outcomes,
                   upload_status, prior_main, prior_conf, runs, csv_read>>

----------------------------------------------------------------------------
(* upload_results_to_cloud *)

\* The PDFs and PNGs are uploaded first, then the two CSV objects in turn;
\* the first failure raises and nothing after it is attempted.
upload_results_to_cloud(outcome) ==
    /\ UNCHANGED <<args, result, output_csv, confidence_csv>>
    /\ pc = "returned"
    /\ prior_main' = cloud_main
    /\ prior_conf' = cloud_conf
    /\ upload_status' = outcome
    /\ cloud_main' = IF outcome \in {"conf_failed", "ok"}
                     THEN write_csv_to_cloud(ret_main) ELSE cloud_main
    /\ cloud_conf' = IF outcome = "ok" THEN ret_conf ELSE cloud_conf
    /\ pc' = "idle"
    /\ UNCHANGED <<image_files, idx, existing_df, existing_confidence_df,
                   current_df, all_long_results, outcomes, conf_log, ret_main,
                   ret_conf, runs, csv_read>>

----------------------------------------------------------------------------
(* Specification of the pipeline *)

Init ==
    /\ cloud_main = empty_df
    /\ cloud_conf = empty_conf
    /\ pc = "idle"
    /\ image_files = << >>
    /\ idx = 1
    /\ existing_df = empty_df
    /\ existing_confidence_df = empty_conf
    /\ current_df = empty_df
    /\ all_long_results = << >>
    /\ outcomes = << >>
    /\ conf_log = << >>
    /\ ret_main = empty_df
    /\ ret_conf = empty_conf
    /\ upload_status = "none"
    /\ prior_main = empty_df
    /\ prior_conf = empty_conf
    /\ runs = 0
    /\ csv_read = "none"
    /\ output_csv = empty_df
    /\ confidence_csv = empty_conf
    /\ args = << >>
    /\ result = << >>

Directories == { D \in SUBSET FileNames : Cardinality(D) <= MaxImages }

Next ==
    \/ \E directory \in Directories : StartRun(directory)
    \/ \E ocr_ok \in BOOLEAN : ProcessImage(ocr_ok)
    \/ Finish
    \/ \E outcome \in {"files_failed", "main_failed", "conf_failed", "ok"} :
           upload_results_to_cloud(outcome)

Spec == Init /\ [][Next]_vars

----------------------------------------------------------------------------
(* factset_data_collector: process_directory with local CSV files.         *)
(* It keeps the two tables in the files output_csv and confidence_csv      *)
(* (absent while empty); under SpecLegacy existing_confidence_df is        *)
(* current_confidence_df, and prior_main, prior_conf are the files as they *)
(* were when the run began.                                                *)

\* convert_to_wide_format of factset_data_collector: the pivot alone, the
\* Report_Date column is not parsed
legacy_convert_to_wide_format(df) == PivotWide(df)

\* calculate_consistency_with_previous_week: the long records of the closest
\* previous date against the current ones, dark bars only; 0.0 on any
\* ValueError or KeyError
calculate_consistency_with_previous_week(current_date, current_data, all_data) ==
    LET all_dates == { all_data[i].report_date : i \in DOMAIN all_data }
        previous_dates == { d \in all_dates : d < current_date }
        previous_data == DateData(all_data, MaxOf(previous_dates))
        current_actual == SelectSeq(current_data, LAMBDA r : r.bar_color = "dark")
        previous_actual == SelectSeq(previous_data, LAMBDA r : r.bar_color = "dark")
        prev_row(qt) == SelectSeq(previous_actual, LAMBDA r : r.quarter = qt)
        compared == SelectSeq(current_actual, LAMBDA r : prev_row(r.quarter) # << >>)
        matched == SelectSeq(compared,
                      LAMBDA r : 500 * Abs(r.eps - Head(prev_row(r.quarter)).eps)
                                   <= Max(100 * Abs(Head(prev_row(r.quarter)).eps), 1))
    IN IF ~Parseable(current_date) \/ \E d \in all_dates : ~Parseable(d)
       THEN Rat(0, 1)
       ELSE IF previous_dates = {} THEN Rat(0, 1)
       ELSE IF current_actual = << >> \/ previous_actual = << >> THEN Rat(0, 1)
       ELSE IF compared = << >> THEN Rat(0, 1)
       ELSE Rat(100 * Len(matched), Len(compared))

\* calculate_confidence_dataframe of factset_data_collector (df_wide, df_long)
legacy_calculate_confidence_dataframe(df_wide, df_long) ==
    LET first_date == FirstDate(DatesOf(df_wide))
        score(d) ==
            [ Report_Date |-> d,
              has_data    |-> DateData(df_long, d) # << >>,
              bar         |-> _calculate_bar_score(DateData(df_long, d), df_long),
              consistency |-> IF d = first_date THEN Rat(100, 1)
                              ELSE calculate_consistency_with_previous_week(
                                       d, DateData(df_long, d), df_long) ]
    IN [ i \in DOMAIN df_wide.rows |->
           [ Report_Date |-> df_wide.rows[i].Report_Date,
             Confidence  |-> ConfidenceOf(score(df_wide.rows[i].Report_Date)) ] ]

\* pd.to_datetime(df['Report_Date']) raises
HasRawDate(df) == \E i \in DOMAIN df.rows : ~Parseable(df.rows[i].Report_Date)

\* Lines 106-147: read output_csv when it exists (a failed read is logged and
\* the run goes on with existing_df = None), select the images, return when
\* there is none, read confidence_csv in the same way.
LegacyStart(directory, read_ok, conf_read_ok) ==
    /\ UNCHANGED <<args, result, cloud_main, cloud_conf>>
    /\ pc \in {"idle", "returned", "aborted"}
    /\ runs < MaxRuns
    /\ runs' = runs + 1
    /\ LET exists   == ~IsEmpty(output_csv)
           loaded   == exists /\ read_ok
           existing == IF loaded THEN output_csv ELSE empty_df
           files    == SelectSeq(SortedNames(directory),
                                 LAMBDA f : ~StemProcessed(f, existing))
       IN /\ csv_read' = IF ~exists THEN "absent"
                         ELSE IF read_ok THEN "ok" ELSE "failed"
          /\ existing_df' = existing
          /\ current_df' = existing
          /\ image_files' = files
          /\ IF files = << >>
             THEN \* "not existing_df" raises ValueError on a DataFrame
                  /\ pc' = IF loaded THEN "aborted" ELSE "returned"
                  /\ existing_confidence_df' = empty_conf
             ELSE /\ pc' = "loop"
                  /\ existing_confidence_df' =
                         IF confidence_csv # << >> /\ conf_read_ok
                         THEN confidence_csv ELSE empty_conf
    /\ idx' = 1
    /\ outcomes' = << >>
    /\ ret_main' = empty_df
    /\ prior_main' = output_csv
    /\ prior_conf' = confidence_csv
    /\ UNCHANGED <<output_csv, confidence_csv, all_long_results, conf_log, ret_conf,
                   upload_status>>

\* Lines 149-194: one iteration of the loop; both files are written after
\* each image, output_csv first.  save is how the two to_csv calls end.
LegacyProcessImage(ocr_ok, save) ==
    /\ UNCHANGED <<args, result, cloud_main, cloud_conf>>
    /\ pc = "loop"
    /\ idx <= Len(image_files)
    /\ LET results == process_image(image_files[idx], ocr_ok)
           df_wide == legacy_convert_to_wide_format(results)
           df_confidence == legacy_calculate_confidence_dataframe(df_wide, results)
           merged  == IF IsEmpty(current_df) THEN df_wide
                      ELSE _merge_data(current_df, df_wide)
           merged_conf == IF existing_confidence_df = << >> THEN df_confidence
                          ELSE SortRows(DropDuplicatesKeepLast(
                                   existing_confidence_df \o df_confidence))
       IN IF results = << >>
          THEN /\ outcomes' = Append(outcomes, "nodata")
               /\ UNCHANGED <<current_df, existing_confidence_df, output_csv,
                              confidence_csv>>
          ELSE IF ~IsEmpty(current_df) /\ (HasRawDate(df_wide) \/ HasRawDate(current_df))
          THEN \* pd.to_datetime raises before the concat
               /\ outcomes' = Append(outcomes, "error")
               /\ UNCHANGED <<current_df, existing_confidence_df, output_csv,
                              confidence_csv>>
          ELSE IF HasRawDate(merged) \/ save = "main_failed"
          THEN \* pd.to_datetime or the first to_csv raises after the merge
               /\ outcomes' = Append(outcomes, "error")
               /\ current_df' = merged
               /\ UNCHANGED <<existing_confidence_df, output_csv, confidence_csv>>
          ELSE /\ current_df' = merged
               /\ output_csv' = CsvRoundTrip(merged)
               /\ existing_confidence_df' = merged_conf
               /\ IF save = "conf_failed"
                  THEN /\ outcomes' = Append(outcomes, "error")
                       /\ UNCHANGED confidence_csv
                  ELSE /\ outcomes' = Append(outcomes, "merged")
                       /\ confidence_csv' = merged_conf
    /\ idx' = idx + 1
    /\ UNCHANGED <<pc, image_files, existing_df, all_long_results, conf_log,
                   ret_main, ret_conf, upload_status, prior_main, prior_conf,
                   runs, csv_read>>

\* Lines 196-202: after the loop
LegacyFinish ==
    /\ UNCHANGED <<args, result, cloud_main, cloud_conf>>
    /\ pc = "loop"
    /\ idx > Len(image_files)
    /\ IF IsEmpty(current_df)
       THEN /\ pc' = "returned"
            /\ ret_main' = existing_df
       ELSE IF HasRawDate(current_df)
       THEN /\ pc' = "aborted"
            /\ UNCHANGED ret_main
       ELSE /\ pc' = "returned"
            /\ ret_main' = current_df
    /\ UNCHANGED <<output_csv, confidence_csv, image_files, idx, existing_df,
                   existing_confidence_df, current_df, all_long_results, outcomes,
                   conf_log, ret_conf, upload_status, prior_main, prior_conf,
                   runs, csv_read>>

NextLegacy ==
    \/ \E directory \in Directories, read_ok \in BOOLEAN, conf_read_ok \in BOOLEAN :
           LegacyStart(directory, read_ok, conf_read_ok)
    \/ \E ocr_ok \in BOOLEAN, save \in {"ok", "main_failed", "conf_failed"} :
           LegacyProcessImage(ocr_ok, save)
    \/ LegacyFinish

SpecLegacy == Init /\ [][NextLegacy]_vars

----------------------------------------------------------------------------
(* main() of actions/workflow.py: the two objects of the bucket are copied *)
(* over the local files and process_images (the process_directory above)   *)
(* is called with keywords it does not take, which ends main() before the  *)
(* upload of the local files.  cloud_main and cloud_conf are the objects.  *)

\* what every step of main() outside process_images leaves alone
run_vars == <<image_files, idx, existing_df, existing_confidence_df, current_df,
              all_long_results, outcomes, conf_log, ret_main, ret_conf,
              upload_status, prior_main, prior_conf, runs, csv_read, args, result>>

\* Lines 44-51: download_from_cloud writes the local file when it fetched
\* the object; otherwise the local file stays as it is
WorkflowDownload(csv_downloaded, confidence_downloaded) ==
    /\ pc = "idle"
    /\ output_csv' = IF csv_downloaded /\ ~IsEmpty(cloud_main)
                      THEN cloud_main ELSE output_csv
    /\ confidence_csv' = IF confidence_downloaded /\ cloud_conf # empty_conf
                          THEN cloud_conf ELSE confidence_csv
    /\ pc' = "downloaded"
    /\ UNCHANGED <<cloud_main, cloud_conf, run_vars>>

\* Lines 123-167: main() returns before process_images when there is no new
\* PDF or when the download or the extraction of the charts fails
WorkflowReturnsEarly ==
    /\ pc = "downloaded"
    /\ pc' = "idle"
    /\ UNCHANGED <<cloud_main, cloud_conf, output_csv, confidence_csv, run_vars>>

\* Lines 173-183: process_images is called with use_coordinate_matching,
\* classify_bars and use_multiple_methods, keywords that process_directory
\* (directory, output_csv, limit) does not take: the call raises TypeError
\* before the body of the function runs, the handler of line 181 prints the
\* error and main() returns; no file is read or written
WorkflowProcessImages ==
    /\ pc = "downloaded"
    /\ pc' = "idle"
    /\ UNCHANGED <<cloud_main, cloud_conf, output_csv, confidence_csv, run_vars>>

\* Lines 209-217, which only a returned process_images lets main() reach:
\* each local file that exists is uploaded under its key; upload_to_cloud
\* returns False when it fails, and nothing is raised
WorkflowUpload(csv_uploaded, confidence_uploaded) ==
    /\ pc = "processed"
    /\ cloud_main' = IF ~IsEmpty(output_csv) /\ csv_uploaded
                      THEN output_csv ELSE cloud_main
    /\ cloud_conf' = IF confidence_csv # empty_conf /\ confidence_uploaded
                      THEN confidence_csv ELSE cloud_conf
    /\ pc' = "idle"
    /\ UNCHANGED <<output_csv, confidence_csv, run_vars>>

NextWorkflow ==
    \/ \E csv_downloaded \in BOOLEAN, confidence_downloaded \in BOOLEAN :
           WorkflowDownload(csv_downloaded, confidence_downloaded)
    \/ WorkflowReturnsEarly
    \/ WorkflowProcessImages
    \/ \E csv_uploaded \in BOOLEAN, confidence_uploaded \in BOOLEAN :
           WorkflowUpload(csv_uploaded, confidence_uploaded)

SpecWorkflow == Init /\ [][NextWorkflow]_vars

----------------------------------------------------------------------------
(* Claims about process_directory *)

\* report date of the k-th image of the run
ImageDate(k) == get_report_date_from_filename(image_files[k])

\* the processed images whose records were merged as the row of date d
MergedFor(d) ==
    { k \in DOMAIN outcomes : outcomes[k] = "merged" /\ ImageDate(k) = d }

MergedDates == { d \in Dates : MergedFor(d) # {} }

\* the wide row one image yields on its own
OwnRow(f) == PivotWide(process_image(f, TRUE)).rows[1]

\* the wide table of the run: the accumulated one inside the loop, the
\* returned one after the return
RunTable == IF pc = "returned" THEN ret_main ELSE current_df

UniqueDates(rows) ==
    \A i, j \in DOMAIN rows : i # j => rows[i].Report_Date # rows[j].Report_Date

\* C1: the wide table has exactly one row per distinct Report_Date (the
\* dates of the existing table and the dates produced by the images), and
\* the row of a date produced in the run carries the values of the
\* last-processed image of that date, whatever rows an earlier image or the
\* existing table had for it.
C1_OneRowPerDateLastWins ==
    pc \in {"loop", "returned"} =>
        /\ UniqueDates(RunTable.rows)
        /\ DatesOf(RunTable) = DatesOf(existing_df) \cup MergedDates
        /\ \A d \in MergedDates :
             LET own == OwnRow(image_files[MaxOf(MergedFor(d))])
             IN \A qt \in Range(RunTable.cols) :
                  RowOf(RunTable, d).cells[qt] =
                      IF qt \in DOMAIN own.cells THEN own.cells[qt] ELSE nan

\* C1 witness: a run returned after two images of one date, with different
\* values, were both merged, on top of an existing table.
C1_Witness ==
    /\ pc = "returned"
    /\ ~IsEmpty(existing_df)
    /\ \E i, j \in DOMAIN outcomes :
         /\ i < j /\ outcomes[i] = "merged" /\ outcomes[j] = "merged"
         /\ ImageDate(i) = ImageDate(j)
         /\ OwnRow(image_files[i]) # OwnRow(image_files[j])

\* C2: when every image merged in the run has a date absent from both
\* existing tables, each existing wide row keeps its cell in every existing
\* column, each existing confidence row keeps its Confidence, and every new
\* date has a row in both returned tables.
C2_ExistingPreserved ==
    ( /\ pc = "returned"
      /\ MergedDates \cap (DatesOf(existing_df) \cup ConfDates(existing_confidence_df)) = {} )
    =>
        /\ \A d \in DatesOf(existing_df) :
             /\ d \in DatesOf(ret_main)
             /\ \A qt \in Range(existing_df.cols) :
                  /\ qt \in Range(ret_main.cols)
                  /\ RowOf(ret_main, d).cells[qt] = RowOf(existing_df, d).cells[qt]
        /\ \A d \in ConfDates(existing_confidence_df) :
             /\ d \in ConfDates(ret_conf)
             /\ ConfOf(ret_conf, d) = ConfOf(existing_confidence_df, d)
        /\ \A d \in MergedDates :
             d \in DatesOf(ret_main) /\ d \in ConfDates(ret_conf)

\* C2 witness: a run returned with a new date merged on top of an existing
\* wide table and an existing confidence table that lack that date.
C2_Witness ==
    /\ pc = "returned"
    /\ MergedDates # {}
    /\ ~IsEmpty(existing_df)
    /\ existing_confidence_df # << >>
    /\ MergedDates \cap (DatesOf(existing_df) \cup ConfDates(existing_confidence_df)) = {}
    /\ \E qt \in Range(ret_main.cols) : qt \notin Range(existing_df.cols)

\* C3: when every image processed in the run yields no record, the
\* returned tables are the existing tables, row for row and value for value.
C3_EmptyResultsKeepTables ==
    ( /\ pc = "returned"
      /\ \A k \in DOMAIN outcomes : outcomes[k] = "nodata" )
    =>
        /\ ret_main = existing_df
        /\ ret_conf = existing_confidence_df

\* C3 witness: a run over two images that both yielded nothing, returned on
\* top of existing tables.
C3_Witness ==
    /\ pc = "returned"
    /\ Len(outcomes) >= 2
    /\ \A k \in DOMAIN outcomes : outcomes[k] = "nodata"
    /\ ~IsEmpty(existing_df)
    /\ existing_confidence_df # << >>

\* C4 (as claimed): a failure while handling one image never aborts the
\* run, and the returned tables hold the row of every image that was merged.
C4_FailureIsolated ==
    /\ pc # "aborted"
    /\ pc = "returned" =>
         \A d \in MergedDates : d \in DatesOf(ret_main) /\ d \in ConfDates(ret_conf)

\* C5 (as claimed): when the loop moves on after an image was merged, both
\* tables as merged so far have been written back to storage.
C5_PersistedAfterEachImage ==
    ( /\ pc = "loop"
      /\ idx > 1
      /\ outcomes[idx - 1] = "merged" )
    =>
        /\ cloud_main = write_csv_to_cloud(current_df)
        /\ ConfDates(cloud_conf) = DatesOf(current_df)

\* C6 (as claimed): after a failed upload both persisted tables are the ones
\* persisted before the upload began.
C6_FailedSaveKeepsPrior ==
    ( /\ pc = "idle"
      /\ upload_status \in {"files_failed", "main_failed", "conf_failed"} )
    =>
        /\ cloud_main = prior_main
        /\ cloud_conf = prior_conf

\* C7: when loading the existing tables fails the run stops with the error
\* surfaced; it never goes on as if the accumulated table were empty and
\* then persists a table that lacks the rows accumulated before.
C7_LoadFailureStopsRun ==
    csv_read = "failed" =>
        /\ pc = "aborted"
        /\ DatesOf(prior_main) \subseteq DatesOf(output_csv)

\* C8 (as claimed): the two returned tables have the same set of dates, one
\* confidence row per date.
C8_SameDates ==
    pc = "returned" =>
        /\ ConfDates(ret_conf) = DatesOf(ret_main)
        /\ UniqueDates(ret_conf)

\* the long records of the run that carry report date d
RecordsOf(d) == SelectSeq(all_long_results, LAMBDA r : r.report_date = d)

\* the score the specification gives a bar confidence tag
TagScore(tag) ==
    IF tag = "high" THEN 100
    ELSE IF tag = "medium" THEN 67
    ELSE IF tag = "low" THEN 33
    ELSE 0

\* c, in tenths, is n/dn rounded to one decimal: a tenth nearest to n/dn
\* (when n/dn lies midway between two tenths, the float that was rounded
\* lies on one side or the other, and either tenth can come out)
IsRounded(c, n, dn) == 2 * Abs(10 * n - c * dn) <= dn

LoggedDates == { conf_log[i].Report_Date : i \in DOMAIN conf_log }

\* C9: for each newly processed report date the Confidence is
\* round(0.5*bar_score + 0.5*consistency_score, 1), bar_score being the mean
\* of 100/67/33/0 over the records of that date (0 when none carries a bar
\* confidence), and the Confidence lies in [0, 100].
C9_ConfidenceFormula ==
    pc = "returned" =>
        /\ LoggedDates = MergedDates
        /\ \A i \in DOMAIN conf_log :
             LET sc   == conf_log[i]
                 recs == RecordsOf(sc.Report_Date)
                 sum  == SumSeq([ k \in DOMAIN recs |-> TagScore(recs[k].bar_confidence) ])
                 c    == ConfOf(ret_conf, sc.Report_Date)
             IN /\ recs # << >>
                /\ sc.bar.num * Len(recs) = sum * sc.bar.den
                /\ (\A k \in DOMAIN recs : recs[k].bar_confidence = "none")
                       => sc.bar.num = 0
                /\ sc.Report_Date \in ConfDates(ret_conf)
                /\ IsRounded(c, sc.bar.num * sc.consistency.den
                                   + sc.consistency.num * sc.bar.den,
                                2 * sc.bar.den * sc.consistency.den)
                /\ 0 <= c /\ c <= 1000

\* C9 witness: a returned run in which a newly processed date, not the first
\* of the table, has a fractional bar_score and a consistency_score strictly
\* between 0 and 100.
C9_Witness ==
    /\ pc = "returned"
    /\ \E i \in DOMAIN conf_log :
         /\ conf_log[i].bar.num % conf_log[i].bar.den # 0
         /\ conf_log[i].consistency.num > 0
         /\ conf_log[i].consistency.num < 100 * conf_log[i].consistency.den

\* C10: when the chronologically first Report_Date of the merged table is
\* newly processed its consistency_score is 100, so its Confidence is
\* round(50 + 0.5*bar_score, 1), which is 50.0 when no record of that date
\* carries a bar confidence.
C10_FirstDateConsistency ==
    pc = "returned" =>
        \A i \in DOMAIN conf_log :
            LET sc   == conf_log[i]
                recs == RecordsOf(sc.Report_Date)
                c    == ConfOf(ret_conf, sc.Report_Date)
            IN sc.Report_Date = MinOf(DatesOf(ret_main)) =>
                 /\ sc.consistency.num = 100 * sc.consistency.den
                 /\ IsRounded(c, 100 * sc.bar.den + sc.bar.num, 2 * sc.bar.den)
                 /\ (\A k \in DOMAIN recs : recs[k].bar_confidence = "none")
                        => c = 500

\* C10 witness: a returned run that put a new first date in front of the
\* rows of an existing table, with records that carry bar confidences.
C10_Witness ==
    /\ pc = "returned"
    /\ ~IsEmpty(existing_df)
    /\ \E i \in DOMAIN conf_log :
         /\ conf_log[i].Report_Date = MinOf(DatesOf(ret_main))
         /\ conf_log[i].Report_Date \notin DatesOf(existing_df)
         /\ conf_log[i].bar.num > 0

\* the greatest Report_Date of the returned table strictly less than d
PrevDate(d) == MaxOf({ x \in DatesOf(ret_main) : x < d })

\* a cell that holds a number without the estimate mark
IsActualCell(c) == c.kind = "num" /\ ~c.star

\* the quarters the specification compares for date d: a dark record of d,
\* and an actual value in both the row of d and the previous row
ComparedQuarters(d) ==
    { qt \in Range(ret_main.cols) :
        /\ \E k \in DOMAIN RecordsOf(d) :
               RecordsOf(d)[k].quarter = qt /\ RecordsOf(d)[k].bar_color = "dark"
        /\ IsActualCell(RowOf(ret_main, d).cells[qt])
        /\ IsActualCell(RowOf(ret_main, PrevDate(d)).cells[qt]) }

\* |curr - prev| / max(|prev|, 0.01) <= 0.2
MatchedQuarters(d) ==
    { qt \in ComparedQuarters(d) :
        500 * Abs(RowOf(ret_main, d).cells[qt].eps
                    - RowOf(ret_main, PrevDate(d)).cells[qt].eps)
          <= Max(100 * Abs(RowOf(ret_main, PrevDate(d)).cells[qt].eps), 1) }

\* C11 (as claimed): for a report date that is not the first, total_compared
\* counts exactly the dark quarters with an actual value in both the current
\* and the previous row (a quarter missing in either row is not counted), and
\* consistency_score is 100*matches/total_compared, 0 when nothing is compared.
C11_ConsistencyCountsActualsOnly ==
    pc = "returned" =>
        \A i \in DOMAIN conf_log :
            LET d     == conf_log[i].Report_Date
                cs    == conf_log[i].consistency
                total == Cardinality(ComparedQuarters(d))
            IN d # MinOf(DatesOf(ret_main)) =>
                 IF total = 0 THEN cs.num = 0
                 ELSE cs.num * total = 100 * Cardinality(MatchedQuarters(d)) * cs.den

\* the returned table cut down to the row of d and the row just before it
PairTable(d) ==
    [ cols |-> ret_main.cols,
      rows |-> << RowOf(ret_main, PrevDate(d)), RowOf(ret_main, d) >> ]

\* C12: the consistency score of a report date D that is not the first is
\* decided by the row of D and the row of the greatest Report_Date strictly
\* less than D in the merged table, existing rows and rows of the run alike;
\* no other row influences it.
C12_PreviousRowIsImmediatePredecessor ==
    pc = "returned" =>
        \A i \in DOMAIN conf_log :
            LET d == conf_log[i].Report_Date
            IN d # MinOf(DatesOf(ret_main)) =>
                 /\ PrevDate(d) \in DatesOf(ret_main)
                 /\ \A x \in DatesOf(ret_main) : ~(PrevDate(d) < x /\ x < d)
                 /\ conf_log[i].consistency =
                        calculate_consistency_with_previous_week_wide(
                            d, RecordsOf(d), all_long_results, PairTable(d))

\* C12 witness: a returned three-row table (20161209, 20161216, 20161223) in
\* which the last two dates were scored in this run, the last one against a
\* predecessor that is not the first row and with a score above 0.
C12_Witness ==
    /\ pc = "returned"
    /\ DatesOf(ret_main) = Dates
    /\ Len(conf_log) = 2
    /\ \E i \in DOMAIN conf_log :
         /\ conf_log[i].Report_Date = 20161223
         /\ PrevDate(20161223) = 20161216
         /\ conf_log[i].consistency.num > 0
    /\ \E i \in DOMAIN conf_log : conf_log[i].Report_Date = 20161216

RowsAscending(df) ==
    \A i, j \in DOMAIN df.rows :
        i < j => df.rows[i].Report_Date < df.rows[j].Report_Date

\* (year, quarter number) order of the quarter columns
ColsAscending(df) ==
    \A i, j \in DOMAIN df.cols :
        i < j => \/ df.cols[i].yy < df.cols[j].yy
                 \/ df.cols[i].yy = df.cols[j].yy /\ df.cols[i].q < df.cols[j].q

\* C13: after every merge step of a run, and in the table process_directory
\* returns, the rows are in ascending Report_Date order and the quarter
\* columns in ascending (year, quarter number) order.
C13_RowsAndColumnsSorted ==
    /\ RowsAscending(current_df) /\ ColsAscending(current_df)
    /\ RowsAscending(ret_main) /\ ColsAscending(ret_main)

\* C13 witness: on top of an existing table the run has merged a date earlier
\* than every existing row and then an image that brings Q4'13, a column
\* earlier than all the columns the table had.
C13_Witness ==
    /\ pc = "loop"
    /\ ~IsEmpty(existing_df)
    /\ outcomes = << "merged", "merged" >>
    /\ Q4_13 \notin Range(existing_df.cols)
    /\ current_df.cols[1] = Q4_13
    /\ \E d \in DatesOf(current_df) \ DatesOf(existing_df) :
           d < MinOf(DatesOf(existing_df))

----------------------------------------------------------------------------
(* Functions checked on their own: the arguments are drawn in the initial  *)
(* state, one action applies the function, the pipeline stays at rest.     *)

pipeline_vars == <<cloud_main, cloud_conf, image_files, idx, existing_df,
                   existing_confidence_df, current_df, all_long_results,
                   outcomes, conf_log, ret_main, ret_conf, upload_status,
                   prior_main, prior_conf, runs, csv_read, output_csv,
                   confidence_csv>>

AtRest ==
    /\ cloud_main = empty_df /\ cloud_conf = empty_conf
    /\ image_files = << >> /\ idx = 1
    /\ existing_df = empty_df /\ existing_confidence_df = empty_conf
    /\ current_df = empty_df /\ all_long_results = << >>
    /\ outcomes = << >> /\ conf_log = << >>
    /\ ret_main = empty_df /\ ret_conf = empty_conf
    /\ upload_status = "none"
    /\ prior_main = empty_df /\ prior_conf = empty_conf
    /\ runs = 0 /\ csv_read = "none"
    /\ output_csv = empty_df /\ confidence_csv = empty_conf

\* the sequences over S of length 1..n
RECURSIVE SeqsUpTo(_, _)
SeqsUpTo(S, n) ==
    IF n = 0 THEN {}
    ELSE { << x >> : x \in S }
           \cup { Append(t, x) : t \in SeqsUpTo(S, n - 1), x \in S }

----------------------------------------------------------------------------
(* Bar-fill classifier (bar_classifier.py)                                 *)
(* An image is its width and height together with its three preprocessed  *)
(* images; a preprocessed image is what it shows in the bar region that    *)
(* starts at row y_top: the share of white pixels there, in tenths.        *)

Box(l, t, w, h) == [left |-> l, top |-> t, width |-> w, height |-> h]

\* int() of a quotient: truncation toward zero
TruncDiv(a, b) == IF a >= 0 THEN a \div b ELSE -((-a) \div b)

\* get_bar_region_coordinates: the boxes have integer coordinates
get_bar_region_coordinates(q_box, num_box, image_width) ==
    [ x_min    |-> Max(0, TruncDiv(2 * q_box.left + q_box.width
                                      + 2 * num_box.left + num_box.width, 4) - 15),
      x_max    |-> Min(image_width,
                       TruncDiv(2 * q_box.left + q_box.width
                                  + 2 * num_box.left + num_box.width, 4) + 15),
      y_top    |-> num_box.top + num_box.height,
      y_bottom |-> q_box.top ]

\* a bound of a slice of an axis of length n: a negative bound counts from
\* the end of the axis, and every bound is cut at the ends of the axis
SliceBound(i, n) == IF i < 0 THEN Max(0, i + n) ELSE Min(i, n)

\* size of image[y_top:y_bottom, x_min:x_max]
CropSize(image, r) ==
    Max(0, SliceBound(r.y_bottom, image.height) - SliceBound(r.y_top, image.height))
      * Max(0, SliceBound(r.x_max, image.width) - SliceBound(r.x_min, image.width))

\* np.sum(cropped_region == 255) of a preprocessed image over a crop of
\* `size` pixels that starts at row y_top
WhitePixels(preprocessed_image, y_top, size) ==
    IF y_top \in DOMAIN preprocessed_image
    THEN (preprocessed_image[y_top] * size) \div 10
    ELSE 0

\* white_ratio > 0.7
classify_with_adaptive_threshold(white_pixels, total_pixels) ==
    IF total_pixels = 0 THEN "light"
    ELSE IF 10 * white_pixels > 7 * total_pixels THEN "dark" ELSE "light"

\* white_ratio > 0.5, inverted sense
classify_with_morphology_closing(white_pixels, total_pixels) ==
    IF total_pixels = 0 THEN "light"
    ELSE IF 2 * white_pixels > total_pixels THEN "light" ELSE "dark"

\* white_ratio > 0.7
classify_with_otsu_inverted(white_pixels, total_pixels) ==
    IF total_pixels = 0 THEN "light"
    ELSE IF 10 * white_pixels > 7 * total_pixels THEN "dark" ELSE "light"

\* Mutant of TallyVotes: the third method is left out of the tally
tally_without_otsu(result_adaptive, result_closing, result_otsu_inv) ==
    [ c \in {"dark", "light"} |->
        (IF result_adaptive = c THEN 1 ELSE 0)
          + (IF result_closing = c THEN 1 ELSE 0) ]

\* votes = {'dark': 0, 'light': 0}; votes[result] += 1 for each method
TallyVotes(result_adaptive, result_closing, result_otsu_inv) ==
    [ c \in {"dark", "light"} |->
        (IF result_adaptive = c THEN 1 ELSE 0)
          + (IF result_closing = c THEN 1 ELSE 0)
          + (IF result_otsu_inv = c THEN 1 ELSE 0) ]

\* Mutant of ConfidenceOfVotes: two agreeing methods give 'low'
confidence_two_is_low(votes, final_color) ==
    IF votes[final_color] = 3 THEN "high" ELSE "low"

\* 'high' for 3 winning votes, 'medium' for 2, 'low' otherwise
ConfidenceOfVotes(votes, final_color) ==
    IF votes[final_color] = 3 THEN "high"
    ELSE IF votes[final_color] = 2 THEN "medium"
    ELSE "low"

\* the four values of the classification when the three methods voted
VotedClassification(result_adaptive, result_closing, result_otsu_inv, votes, final_color) ==
    [ bar_color  |-> final_color,
      confidence |-> ConfidenceOfVotes(votes, final_color),
      votes      |-> votes,
      methods    |-> [ m \in {"adaptive", "closing", "otsu_inv"} |->
                         IF m = "adaptive" THEN result_adaptive
                         ELSE IF m = "closing" THEN result_closing
                         ELSE result_otsu_inv ] ]

\* final_color = 'dark' if votes['dark'] > votes['light'] else 'light'
ClassificationOf(result_adaptive, result_closing, result_otsu_inv, votes) ==
    VotedClassification(result_adaptive, result_closing, result_otsu_inv, votes,
                        IF votes["dark"] > votes["light"] THEN "dark" ELSE "light")

\* the three crops of the region r, classified and tallied
ClassifyRegion(adaptive_image, closing_image, otsu_inv_image, r, size) ==
    ClassificationOf(
        classify_with_adaptive_threshold(WhitePixels(adaptive_image, r.y_top, size), size),
        classify_with_morphology_closing(WhitePixels(closing_image, r.y_top, size), size),
        classify_with_otsu_inverted(WhitePixels(otsu_inv_image, r.y_top, size), size),
        TallyVotes(
            classify_with_adaptive_threshold(WhitePixels(adaptive_image, r.y_top, size), size),
            classify_with_morphology_closing(WhitePixels(closing_image, r.y_top, size), size),
            classify_with_otsu_inverted(WhitePixels(otsu_inv_image, r.y_top, size), size)))

\* the classification of the region r of the images
ClassifyIn(original_image, adaptive_image, closing_image, otsu_inv_image, r) ==
    IF r.y_bottom <= r.y_top \/ r.x_max <= r.x_min
    THEN [ bar_color  |-> "light",
           confidence |-> "low",
           votes      |-> [ c \in {"dark", "light"} |-> 0 ],
           methods    |-> [ m \in {} |-> "light" ] ]
    ELSE ClassifyRegion(adaptive_image, closing_image, otsu_inv_image, r,
                        CropSize(original_image, r))

classify_bar_with_multiple_methods(original_image, adaptive_image, closing_image, otsu_inv_image, q_box, num_box) ==
    ClassifyIn(original_image, adaptive_image, closing_image, otsu_inv_image,
               get_bar_region_coordinates(q_box, num_box, original_image.width))

\* preprocess_images_for_classification: the three preprocessed images
preprocess_images_for_classification(image) ==
    [ adaptive |-> image.adaptive,
      closing  |-> image.closing,
      otsu_inv |-> image.otsu_inv ]

\* {**result, 'bar_color': ..., 'bar_confidence': ..., 'bar_votes': ...,
\*  'bar_methods': ...}: every key of the matched result is kept
WithClassification(matched, classification) ==
    [ bar_color      |-> classification.bar_color,
      bar_confidence |-> classification.confidence,
      bar_votes      |-> classification.votes,
      bar_methods    |-> classification.methods ] @@ matched

\* classify_all_bars with use_multiple_methods=True
classify_all_bars(image, matched_results) ==
    [ i \in DOMAIN matched_results |->
        WithClassification(
            matched_results[i],
            classify_bar_with_multiple_methods(
                image,
                preprocess_images_for_classification(image).adaptive,
                preprocess_images_for_classification(image).closing,
                preprocess_images_for_classification(image).otsu_inv,
                matched_results[i].quarter_box,
                matched_results[i].number_box)) ]

\* rows at which the bar regions of MatchedPairs start
RegionTops == {-20, 20, 30, 50, 55}

\* a preprocessed image: white share `upper` in the region that starts at
\* row 20 and `lower` in every region that starts further down
Preprocessed(upper, lower) == [ y \in RegionTops |-> IF y = 20 THEN upper ELSE lower ]

\* Images 90, 110 and 200 wide: the 30px region around x = 110 falls
\* outside the first, is cut by the second, fits in the third.  White
\* shares on both sides of each method's threshold.
BarImages ==
    { [ width    |-> w,
        height   |-> 100,
        adaptive |-> Preprocessed(a, 15 - a),
        closing  |-> Preprocessed(c1, c2),
        otsu_inv |-> Preprocessed(o, o) ] :
        w \in {90, 110, 200}, a \in {7, 8}, c1 \in {5, 6}, c2 \in {5, 6},
        o \in {7, 8} }

\* Matched results as match_quarters_with_numbers returns them, the quarter
\* box at top 50 and the number box above it: clear of it (top 10 and 20),
\* touching it, overlapping it, and above the upper edge of the image.
MatchedPairs ==
    { [ quarter     |-> Q1_14,
        eps         |-> 10,
        quarter_box |-> [text |-> "Q1'14"] @@ Box(100, 50, 20, 10),
        number_box  |-> [text |-> "10"] @@ Box(100, t, 20, 10),
        \* the boxes share one center x: sqrt(0.0 + y_diff ** 2 * 0.1)
        distance    |-> FloatSqrt(FloatTimes(FloatOfInt((50 - t) * (50 - t)),
                                             TrueDiv(1, 10))) ] :
        t \in {10, 20, 40, 45, -30} }

InitBars ==
    /\ AtRest
    /\ pc = "call"
    /\ args \in { [image |-> im, matched_results |-> mr] :
                    im \in BarImages, mr \in SeqsUpTo(MatchedPairs, MaxPairs) }
    /\ result = << >>

ClassifyAllBars ==
    /\ pc = "call"
    /\ result' = classify_all_bars(args.image, args.matched_results)
    /\ pc' = "done"
    /\ UNCHANGED <<args, pipeline_vars>>

NextBars == ClassifyAllBars

SpecBars == InitBars /\ [][NextBars]_vars

\* the region between the number box and the quarter box has positive area
RegionHasArea(image, pair) ==
    /\ pair.number_box.top + pair.number_box.height < pair.quarter_box.top
    /\ get_bar_region_coordinates(pair.quarter_box, pair.number_box,
                                  image.width).x_min
         < get_bar_region_coordinates(pair.quarter_box, pair.number_box,
                                      image.width).x_max

\* C14 (as claimed): every classification attached by classify_all_bars has
\* votes.dark + votes.light = 3.
C14_VotesSumToThree ==
    pc = "done" =>
        \A i \in DOMAIN result :
            result[i].bar_votes["dark"] + result[i].bar_votes["light"] = 3

\* C14 (amended): votes.dark + votes.light = 3 for every pair whose region
\* has positive area; for a pair whose region has no area the methods do not
\* vote and the classification carries votes dark 0, light 0.
C14_VotesSumToThreeWhenRegionHasArea ==
    pc = "done" =>
        /\ Len(result) = Len(args.matched_results)
        /\ \A i \in DOMAIN result :
             IF RegionHasArea(args.image, args.matched_results[i])
             THEN result[i].bar_votes["dark"] + result[i].bar_votes["light"] = 3
             ELSE result[i].bar_votes["dark"] = 0 /\ result[i].bar_votes["light"] = 0

\* C14 witness: one image with a pair whose methods split 2-1 and a pair
\* whose number box touches the quarter box (no area).
C14_Witness ==
    /\ pc = "done"
    /\ \E i, j \in DOMAIN result :
         /\ result[i].bar_votes["dark"] = 2 /\ result[i].bar_votes["light"] = 1
         /\ ~RegionHasArea(args.image, args.matched_results[j])
         /\ RegionHasArea(args.image, args.matched_results[i])

\* the methods of a classification that said c
MethodsSaying(classification, c) ==
    { m \in DOMAIN classification.bar_methods : classification.bar_methods[m] = c }

\* C15: bar_color is the majority of the three method votes (dark iff at
\* least 2 methods say dark); 3 winning votes give 'high', 2 give 'medium';
\* 'low' comes only from the zero-area case, never when the methods voted.
C15_MajorityAndConfidence ==
    pc = "done" =>
        \A i \in DOMAIN result :
            LET nd == Cardinality(MethodsSaying(result[i], "dark"))
                nw == Cardinality(MethodsSaying(result[i], result[i].bar_color))
                voted == DOMAIN result[i].bar_methods # {}
            IN /\ result[i].bar_color = "dark" <=> nd >= 2
               /\ voted => /\ Cardinality(DOMAIN result[i].bar_methods) = 3
                           /\ nw = result[i].bar_votes[result[i].bar_color]
                           /\ nw = 3 => result[i].bar_confidence = "high"
                           /\ nw = 2 => result[i].bar_confidence = "medium"
                           /\ nw \in {2, 3}
               /\ result[i].bar_confidence = "low" =>
                      /\ ~voted
                      /\ ~RegionHasArea(args.image, args.matched_results[i])
               /\ voted <=> RegionHasArea(args.image, args.matched_results[i])

\* C15 witness: one image with a pair the three methods all call dark
\* ('high') and a pair they split 2-1 for light ('medium').
C15_Witness ==
    /\ pc = "done"
    /\ \E i, j \in DOMAIN result :
         /\ result[i].bar_color = "dark" /\ result[i].bar_confidence = "high"
         /\ result[i].bar_votes["dark"] = 3
         /\ result[j].bar_color = "light" /\ result[j].bar_confidence = "medium"
         /\ result[j].bar_votes["dark"] = 1

----------------------------------------------------------------------------
(* Quarter patterns and numbers in OCR text (coordinate_matcher.py)        *)
(* A text is the sequence of its characters; None is the empty sequence.   *)

DigitChars == << "0", "1", "2", "3", "4", "5", "6", "7", "8", "9" >>

IsDigit(c) == c \in Range(DigitChars)
DigitVal(c) == (CHOOSE n \in DOMAIN DigitChars : DigitChars[n] = c) - 1
IsQuarterDigit(c) == c \in {"1", "2", "3", "4"}
IsQ(c) == c \in {"Q", "q"}
\* the class \s of a str pattern among the characters up to U+00FF: space,
\* \t, \n, \r, \f, and (written raw below) U+000B, U+001C, U+001D, U+001E,
\* U+001F, U+0085 and U+00A0
IsSpace(c) ==
    c \in {" ", "\t", "\n", "\r", "\f",
           "", "", "", "", "", "", " "}

\* the character at position i, "" past the end of the text
At(s, i) == IF i \in DOMAIN s THEN s[i] ELSE ""

\* re.search: the leftmost of the positions where a pattern matches, 0 for
\* no match
Leftmost(positions) == IF positions = {} THEN 0 ELSE MinOf(positions)

\* re.sub(r'^[O0](?=[1-4])', 'Q', IGNORECASE)
SubstituteLeadingO(text) ==
    IF At(text, 1) \in {"O", "o", "0"} /\ IsQuarterDigit(At(text, 2))
    THEN << "Q" >> \o Tail(text) ELSE text

\* r'Q([Il])(?=\d)', IGNORECASE, matches at position i
MatchesQI(s, i) ==
    /\ IsQ(At(s, i))
    /\ At(s, i + 1) \in {"I", "i", "L", "l"}
    /\ IsDigit(At(s, i + 2))

\* re.sub(r'Q([Il])(?=\d)', 'Q1', IGNORECASE)
SubstituteQI(text) ==
    [ i \in DOMAIN text |->
        IF MatchesQI(text, i) THEN "Q"
        ELSE IF i > 1 /\ MatchesQI(text, i - 1) THEN "1"
        ELSE text[i] ]

normalize_quarter_text(text) == SubstituteQI(SubstituteLeadingO(text))

label_without_apostrophe(quarter, y1, y2) == << "Q", quarter, y1, y2 >>

\* f"Q{quarter}'{year}"
QuarterLabel(quarter, y1, y2) == << "Q", quarter, "'", y1, y2 >>

\* r"Q([1-4])'(\d{2})", IGNORECASE
MatchesApostrophe(s, i) ==
    /\ IsQ(At(s, i)) /\ IsQuarterDigit(At(s, i + 1)) /\ At(s, i + 2) = "'"
    /\ IsDigit(At(s, i + 3)) /\ IsDigit(At(s, i + 4))

\* the length of the run of whitespace that starts at position i
RECURSIVE SpaceRun(_, _)
SpaceRun(s, i) == IF IsSpace(At(s, i)) THEN 1 + SpaceRun(s, i + 1) ELSE 0

\* r"Q([1-4])\s+20(\d{2})", IGNORECASE, with k whitespace characters
MatchesFullYearAfter(s, i, k) ==
    /\ IsQ(At(s, i)) /\ IsQuarterDigit(At(s, i + 1)) /\ k >= 1
    /\ At(s, i + 2 + k) = "2" /\ At(s, i + 3 + k) = "0"
    /\ IsDigit(At(s, i + 4 + k)) /\ IsDigit(At(s, i + 5 + k))

MatchesFullYear(s, i) == MatchesFullYearAfter(s, i, SpaceRun(s, i + 2))

\* r"Q([1-4])(\d{2})", IGNORECASE
MatchesConcatenated(s, i) ==
    /\ IsQ(At(s, i)) /\ IsQuarterDigit(At(s, i + 1))
    /\ IsDigit(At(s, i + 2)) /\ IsDigit(At(s, i + 3))

\* r"[0Oo]([1-4])(\d{2})"
MatchesZero(s, i) ==
    /\ At(s, i) \in {"0", "O", "o"} /\ IsQuarterDigit(At(s, i + 1))
    /\ IsDigit(At(s, i + 2)) /\ IsDigit(At(s, i + 3))

\* r"Q([1-4])[iIl1](\d)[yi]", IGNORECASE
MatchesMisread(s, i) ==
    /\ IsQ(At(s, i)) /\ IsQuarterDigit(At(s, i + 1))
    /\ At(s, i + 2) \in {"i", "I", "l", "L", "1"}
    /\ IsDigit(At(s, i + 3))
    /\ At(s, i + 4) \in {"y", "Y", "i", "I"}

\* 14 <= int(year) <= 99 or 0 <= int(year) <= 25
YearInRange(y1, y2) ==
    \/ (14 <= 10 * DigitVal(y1) + DigitVal(y2) /\ 10 * DigitVal(y1) + DigitVal(y2) <= 99)
    \/ (0 <= 10 * DigitVal(y1) + DigitVal(y2) /\ 10 * DigitVal(y1) + DigitVal(y2) <= 25)

\* what each of the five blocks returns for a match at position i of the
\* normalized text, << >> when it returns nothing (i = 0: no match)
ApostropheLabel(n, i) ==
    IF i = 0 THEN << >> ELSE QuarterLabel(n[i + 1], n[i + 3], n[i + 4])

FullYearLabelAfter(n, i, k) == QuarterLabel(n[i + 1], n[i + 4 + k], n[i + 5 + k])

FullYearLabel(n, i) ==
    IF i = 0 THEN << >> ELSE FullYearLabelAfter(n, i, SpaceRun(n, i + 2))

GuardedLabel(n, i) ==
    IF i # 0 /\ YearInRange(n[i + 2], n[i + 3])
    THEN QuarterLabel(n[i + 1], n[i + 2], n[i + 3])
    ELSE << >>

MisreadLabel(n, i) ==
    IF i = 0 THEN << >>
    ELSE QuarterLabel(n[i + 1],
                      IF n[i + 3] \in {"7", "8", "9"} THEN "1" ELSE "2",
                      n[i + 3])

\* the blocks with the concatenated shape tried first
labels_concatenated_first(n) ==
    << GuardedLabel(n, Leftmost({ p \in DOMAIN n : MatchesConcatenated(n, p) })),
       ApostropheLabel(n, Leftmost({ p \in DOMAIN n : MatchesApostrophe(n, p) })),
       FullYearLabel(n, Leftmost({ p \in DOMAIN n : MatchesFullYear(n, p) })),
       GuardedLabel(n, Leftmost({ p \in DOMAIN n : MatchesZero(n, p) })),
       MisreadLabel(n, Leftmost({ p \in DOMAIN n : MatchesMisread(n, p) })) >>

\* the five blocks of extract_quarter_pattern in source order
ShapeLabels(n) ==
    << ApostropheLabel(n, Leftmost({ p \in DOMAIN n : MatchesApostrophe(n, p) })),
       FullYearLabel(n, Leftmost({ p \in DOMAIN n : MatchesFullYear(n, p) })),
       GuardedLabel(n, Leftmost({ p \in DOMAIN n : MatchesConcatenated(n, p) })),
       GuardedLabel(n, Leftmost({ p \in DOMAIN n : MatchesZero(n, p) })),
       MisreadLabel(n, Leftmost({ p \in DOMAIN n : MatchesMisread(n, p) })) >>

\* the first block that returns decides; None when none does
RECURSIVE FirstLabel(_)
FirstLabel(labels) ==
    IF labels = << >> THEN << >>
    ELSE IF Head(labels) # << >> THEN Head(labels)
    ELSE FirstLabel(Tail(labels))

extract_quarter_pattern(text) ==
    FirstLabel(ShapeLabels(normalize_quarter_text(text)))

\* the value of a run of digits
RECURSIVE DigitsValue(_)
DigitsValue(ds) ==
    IF ds = << >> THEN 0
    ELSE 10 * DigitsValue(SubSeq(ds, 1, Len(ds) - 1)) + DigitVal(ds[Len(ds)])

RECURSIVE DigitRun(_, _)
DigitRun(s, i) == IF IsDigit(At(s, i)) THEN 1 + DigitRun(s, i + 1) ELSE 0

RECURSIVE Pow10(_)
Pow10(n) == IF n = 0 THEN 1 ELSE 10 * Pow10(n - 1)

StartsNumber(s, i) == IsDigit(At(s, i))

\* text.replace(',', '').replace('-', '')
RemoveSeparators(text) == SelectSeq(text, LAMBDA c : c # "," /\ c # "-")

\* the number a run of decimal digits stands for
RECURSIVE BigOfDigits(_)
BigOfDigits(ds) ==
    IF ds = << >> THEN << >>
    ELSE BigTimes(BigOfDigits(SubSeq(ds, 1, Len(ds) - 1)), 10, DigitVal(ds[Len(ds)]))

\* 10^k
RECURSIVE BigPow10(_)
BigPow10(k) == IF k = 0 THEN << 1 >> ELSE BigTimes(BigPow10(k - 1), 10, 0)

\* the largest q with q * d <= n among the numbers that agree with q above
\* bit k: the bits are decided from bit k down
RECURSIVE BigQuotientFrom(_, _, _, _)
BigQuotientFrom(n, d, q, k) ==
    IF k < 0 THEN q
    ELSE IF BigLess(n, BigMul(WithBit(q, k), d))
    THEN BigQuotientFrom(n, d, q, k - 1)
    ELSE BigQuotientFrom(n, d, WithBit(q, k), k - 1)

\* n div d, for d > 0
BigDiv(n, d) == BigQuotientFrom(n, d, << >>, Max(BigBitLen(n) - BigBitLen(d), 0))

\* the float of largest size is below 2^1024; what rounds to 2^1024 or more
\* is inf, which is held as 2^1024
float_inf == [m |-> BigShiftLeft(<< 1 >>, 52), exp |-> 972]

Overflowed(x) == IF x.exp + 53 > 1024 THEN float_inf ELSE x

\* the shift s that gives n * 2^s div d at least 55 bits, and at most 1076:
\* below 2^-1022 the floats are the multiples of 2^-1074
DecimalShift(n, d) == Min(Max(55 + BigBitLen(d) - BigBitLen(n), 0), 1076)

\* the float nearest to (q + r) * 2^-1076, 0 <= r < 1, among the multiples
\* of 2^-1074; rest says that r > 0
Subnormal(q, rest) ==
    IF RoundsUp(q, 2, rest)
    THEN NearestFloat(BigAdd(BigShiftRight(q, 2), << 1 >>, 0), -1074, FALSE)
    ELSE IF BigShiftRight(q, 2) = << >> THEN ZeroFloat
    ELSE NearestFloat(BigShiftRight(q, 2), -1074, FALSE)

\* the float nearest to (q + r) * 2^-s, 0 <= r < 1
FloatOfQuotient(q, s, rest) ==
    IF BigBitLen(q) < 55 THEN Subnormal(q, rest)
    ELSE Overflowed(NearestFloat(q, 0 - s, rest))

\* the float nearest to n / d for the shift s of the two
FloatOfRatio(n, d, s) ==
    FloatOfQuotient(BigDiv(BigShiftLeft(n, s), d), s,
                    BigMul(BigDiv(BigShiftLeft(n, s), d), d) # BigShiftLeft(n, s))

\* float() of the text of the decimal digits ds, the last k of them after
\* the point: the float nearest to the decimal number
FloatOfDecimal(ds, k) ==
    IF BigOfDigits(ds) = << >> THEN ZeroFloat
    ELSE IF k = 0 THEN Overflowed(NearestFloat(BigOfDigits(ds), 0, FALSE))
    ELSE FloatOfRatio(BigOfDigits(ds), BigPow10(k),
                      DecimalShift(BigOfDigits(ds), BigPow10(k)))

\* the digits of the match of \d+\.?\d* that starts at m with n1 digits
\* before and n2 digits after the point
MatchDigits(cleaned, m, n1, n2) ==
    SubSeq(cleaned, m, m + n1 - 1) \o SubSeq(cleaned, m + n1 + 1, m + n1 + n2)

\* float(match.group())
NumberOf(cleaned, m, n1, n2) ==
    [found |-> TRUE, value |-> FloatOfDecimal(MatchDigits(cleaned, m, n1, n2), n2)]

NumberAfterInteger(cleaned, m, n1) ==
    NumberOf(cleaned, m, n1,
             IF At(cleaned, m + n1) = "." THEN DigitRun(cleaned, m + n1 + 1) ELSE 0)

\* found = FALSE stands for None
NumberAt(cleaned, m) ==
    IF m = 0 THEN [found |-> FALSE, value |-> ZeroFloat]
    ELSE NumberAfterInteger(cleaned, m, DigitRun(cleaned, m))

LeftmostNumber(cleaned) ==
    NumberAt(cleaned, Leftmost({ p \in DOMAIN cleaned : StartsNumber(cleaned, p) }))

\* the body of extract_number
ExtractedNumber(text) == LeftmostNumber(RemoveSeparators(text))

\* a fragment of the OCR output, 40 wide and 20 high
Fragment(text, left, top) ==
    [text |-> text, left |-> left, top |-> top, width |-> 40, height |-> 20]

\* Fragments of one chart: two quarter labels in the bottom band that read
\* as the same quarter, numbers above them (two of them 1px left and 1px
\* right of the first label, at one height; two above the second label,
\* at x_diff 0, y_diff 29 and at x_diff 2, y_diff 21, whose distances are
\* 9.170605214488301 and 9.1706052144883), and fragments that each fail one
\* test of the candidate loop (the numbers above one label are too far
\* aside for the other; the text 1,999.9999999999999 is a number below 2000
\* whose float is 2000.0).
ChartFragments ==
    << Fragment(<< "Q", "1", "'", "1", "4" >>, 100, 1200),
      Fragment(<< "Q", "1", "1", "4" >>, 300, 1200),
      Fragment(<< "1", "2" >>, 100, 600),
      Fragment(<< "1", "0", ".", "5" >>, 101, 1100),
      Fragment(<< "9" >>, 300, 1171),
      Fragment(<< "1", ",", "9", "9", "9", ".", "9", "9", "9", "9", "9", "9", "9",
                  "9", "9", "9", "9", "9", "9" >>, 100, 1150),
      Fragment(<< "E", "P", "S" >>, 100, 1150),
      Fragment(<< "Q", "3", "'", "1", "4" >>, 100, 700),
      Fragment(<< "8" >>, 100, 1200),
      Fragment(<< "7" >>, 100, 190),
      Fragment(<< "6" >>, 302, 1179),
      Fragment(<< "1", "3" >>, 99, 1100) >>

\* the numbers of the texts of the chart, computed once
ChartNumbers ==
    [ t \in { ChartFragments[i].text : i \in DOMAIN ChartFragments } |->
        ExtractedNumber(t) ]

extract_number(text) ==
    IF text \in DOMAIN ChartNumbers THEN ChartNumbers[text] ELSE ExtractedNumber(text)

----------------------------------------------------------------------------
(* Coordinate matcher (coordinate_matcher.py)                              *)
(* A fragment is [text, left, top, width, height].  Centers are kept       *)
(* doubled (2*left + width) so that half pixels stay integers; the bottom  *)
(* threshold and the distance are the floats the code computes.            *)

CenterX2(box) == 2 * box.left + box.width
CenterY2(box) == 2 * box.top + box.height

SameCoordinates(a, b) ==
    /\ a.left = b.left /\ a.top = b.top
    /\ a.width = b.width /\ a.height = b.height

\* stable sort of quarter boxes by 'left'
RECURSIVE InsertByLeft(_, _)
InsertByLeft(sorted, box) ==
    IF sorted = << >> THEN << box >>
    ELSE IF box.left < Head(sorted).left THEN << box >> \o sorted
    ELSE << Head(sorted) >> \o InsertByLeft(Tail(sorted), box)

boxes_in_ocr_order(boxes) == boxes

RECURSIVE SortByLeft(_)
SortByLeft(boxes) ==
    IF boxes = << >> THEN << >>
    ELSE InsertByLeft(SortByLeft(SubSeq(boxes, 1, Len(boxes) - 1)),
                      boxes[Len(boxes)])

\* {**box, 'quarter': quarter}
WithQuarter(box) ==
    [text |-> box.text, left |-> box.left, top |-> box.top,
     width |-> box.width, height |-> box.height,
     quarter |-> extract_quarter_pattern(box.text)]

\* a - (a * bottom_percent) for the float a >= 0; bottom_percent is given
\* in tenths
ThresholdOf(a, bottom_percent) ==
    FloatMinus(a, FloatTimes(a, TrueDiv(bottom_percent, 10)))

\* -x of a signed float
Negated(x) == [neg |-> ~x.neg /\ x.abs.m # << >>, abs |-> x.abs]

\* max_y - (max_y * bottom_percent), as a sign and a float
BottomThreshold(max_y, bottom_percent) ==
    IF max_y >= 0 THEN ThresholdOf(FloatOfInt(max_y), bottom_percent)
    ELSE Negated(ThresholdOf(FloatOfInt(-max_y), bottom_percent))

\* the integer part of a float x > 0
FloorOf(x) ==
    IF x.exp >= 0 THEN BigValue(BigShiftLeft(x.m, x.exp))
    ELSE BigValue(BigShiftRight(x.m, -x.exp))

\* whether a float x > 0 holds an integer
IsWhole(x) == x.exp >= 0 \/ BigLowZero(x.m, -x.exp)

\* the least integer that is >= the signed float x: an integer box_bottom
\* satisfies box_bottom >= x exactly when it is at least this integer
LeastIntAtOrPast(x) ==
    IF x.abs.m = << >> THEN 0
    ELSE IF x.neg THEN -FloorOf(x.abs)
    ELSE IF IsWhole(x.abs) THEN FloorOf(x.abs)
    ELSE FloorOf(x.abs) + 1

\* the boxes whose bottom is at or below the threshold (box_bottom >=
\* bottom_threshold) and that read as a quarter; least_bottom is the least
\* integer at or past the threshold
BottomQuarters(boxes, least_bottom) ==
    SelectSeq(boxes,
              LAMBDA box : /\ box.top + box.height >= least_bottom
                           /\ box.quarter # << >>)

\* the default of bottom_percent, 0.3, in tenths
BottomPercent == 3

\* the least bottoms for the fragments of ChartFragments at the default
\* bottom_percent, computed once
ChartLeastBottoms ==
    [ max_y \in { f.top + f.height : f \in Range(ChartFragments) } |->
        LeastIntAtOrPast(BottomThreshold(max_y, BottomPercent)) ]

LeastBottom(max_y, bottom_percent) ==
    IF bottom_percent = BottomPercent /\ max_y \in DOMAIN ChartLeastBottoms
    THEN ChartLeastBottoms[max_y]
    ELSE LeastIntAtOrPast(BottomThreshold(max_y, bottom_percent))

find_quarters_at_bottom(ocr_results, bottom_percent) ==
    IF ocr_results = << >> THEN << >>
    ELSE SortByLeft(BottomQuarters(
             [ i \in DOMAIN ocr_results |-> WithQuarter(ocr_results[i]) ],
             LeastBottom(MaxOf({ b.top + b.height : b \in Range(ocr_results) }),
                         bottom_percent)))

XDiff2(quarter_box, box) == Abs(CenterX2(box) - CenterX2(quarter_box))
YDiff2(quarter_box, box) == CenterY2(quarter_box) - CenterY2(box)

\* math.sqrt(x_diff ** 2 * 10 + y_diff ** 2 * 0.1) of two floats
distance(x_diff, y_diff) ==
    FloatSqrt(FloatAdd(TimesInt(FloatTimes(x_diff, x_diff), 10),
                       FloatTimes(FloatTimes(y_diff, y_diff), TrueDiv(1, 10))))

\* the distance for doubled center differences
DistanceOf(x_diff2, y_diff2) ==
    distance(Half(FloatOfInt(x_diff2)), Half(FloatOfInt(y_diff2)))

\* the distances between the fragments of ChartFragments, computed once
ChartDistances ==
    [ p \in { << XDiff2(q, b), YDiff2(q, b) >> :
                q \in { f \in Range(ChartFragments) : extract_quarter_pattern(f.text) # << >> },
                b \in { f \in Range(ChartFragments) : extract_number(f.text).found } }
        |-> DistanceOf(p[1], Abs(p[2])) ]

\* the distance of a box above the quarter box
Distance(quarter_box, box) ==
    IF << XDiff2(quarter_box, box), YDiff2(quarter_box, box) >> \in DOMAIN ChartDistances
    THEN ChartDistances[<< XDiff2(quarter_box, box), YDiff2(quarter_box, box) >>]
    ELSE DistanceOf(XDiff2(quarter_box, box), YDiff2(quarter_box, box))

\* number >= 2000, on the float that float() returned
AtLeast2000(number) == ~FloatLess(number.value, FloatOfInt(2000))

\* the `continue` tests of the loop, in the order of the source
skipped_allowing_years(quarter_box, box, y_tolerance, x_tolerance) ==
    \/ SameCoordinates(box, quarter_box)
    \/ extract_quarter_pattern(box.text) # << >>
    \/ ~extract_number(box.text).found
    \/ CenterY2(box) >= CenterY2(quarter_box)
    \/ YDiff2(quarter_box, box) > 2 * y_tolerance
    \/ XDiff2(quarter_box, box) > 2 * x_tolerance

IsSkipped(quarter_box, box, y_tolerance, x_tolerance) ==
    \/ SameCoordinates(box, quarter_box)
    \/ extract_quarter_pattern(box.text) # << >>
    \/ ~extract_number(box.text).found
    \/ CenterY2(box) >= CenterY2(quarter_box)
    \/ YDiff2(quarter_box, box) > 2 * y_tolerance
    \/ XDiff2(quarter_box, box) > 2 * x_tolerance
    \/ AtLeast2000(extract_number(box.text))

candidate_numbers(quarter_box, ocr_results, y_tolerance, x_tolerance) ==
    SelectSeq(ocr_results,
              LAMBDA box : ~IsSkipped(quarter_box, box, y_tolerance, x_tolerance))

NoBox ==
    [found |-> FALSE, box |-> << >>, number |-> << >>, distance |-> ZeroFloat]

\* candidate_numbers[0] after the sort
NearestBox(box, box_distance) ==
    [found |-> TRUE, box |-> box, number |-> extract_number(box.text),
     distance |-> box_distance]

\* the smallest of a set of floats
LeastFloat(S) == CHOOSE x \in S : \A y \in S : ~FloatLess(y, x)

\* candidate_numbers.sort(key=distance) is stable: of the candidates at the
\* smallest distance the first in ocr_results order comes first
FirstAtDistance(cands, distances, least) ==
    NearestBox(cands[CHOOSE i \in DOMAIN cands :
                        /\ distances[i] = least
                        /\ \A j \in 1..(i - 1) : distances[j] # least],
               least)

NearestAmong(cands, distances) ==
    FirstAtDistance(cands, distances, LeastFloat(Range(distances)))

NearestOf(quarter_box, cands) ==
    IF cands = << >> THEN NoBox
    ELSE NearestAmong(cands,
                      [ i \in DOMAIN cands |-> Distance(quarter_box, cands[i]) ])

find_nearest_number_in_y_range(quarter_box, ocr_results, y_tolerance, x_tolerance) ==
    NearestOf(quarter_box,
              candidate_numbers(quarter_box, ocr_results, y_tolerance, x_tolerance))

\* what one quarter box adds to matched_results
MatchedResult(quarter_box, nearest_number_box) ==
    IF nearest_number_box.found
    THEN << [quarter |-> quarter_box.quarter,
             eps |-> nearest_number_box.number,
             quarter_box |-> [text |-> quarter_box.text,
                              left |-> quarter_box.left,
                              top |-> quarter_box.top,
                              width |-> quarter_box.width,
                              height |-> quarter_box.height],
             number_box |-> nearest_number_box.box,
             distance |-> nearest_number_box.distance] >>
    ELSE << >>

RECURSIVE MatchEach(_, _, _, _)
MatchEach(quarter_boxes, ocr_results, y_tolerance, x_tolerance) ==
    IF quarter_boxes = << >> THEN << >>
    ELSE MatchedResult(Head(quarter_boxes),
                       find_nearest_number_in_y_range(Head(quarter_boxes), ocr_results,
                                                      y_tolerance, x_tolerance))
           \o MatchEach(Tail(quarter_boxes), ocr_results, y_tolerance, x_tolerance)

match_quarters_with_numbers(ocr_results, bottom_percent, y_tolerance, x_tolerance) ==
    MatchEach(find_quarters_at_bottom(ocr_results, bottom_percent),
              ocr_results, y_tolerance, x_tolerance)

\* the defaults of y_tolerance and x_tolerance
YTolerance == 1000
XTolerance == 10

MaxFragments == 4

\* the OCR output lists every fragment once: the sequences of 1..n
\* distinct members of S
RECURSIVE DistinctSeqsUpTo(_, _)
DistinctSeqsUpTo(S, n) ==
    IF n = 0 THEN {}
    ELSE { << x >> : x \in S }
           \cup UNION { { Append(t, x) : x \in S \ Range(t) } :
                         t \in DistinctSeqsUpTo(S, n - 1) }

InitMatch ==
    /\ AtRest
    /\ pc = "call"
    /\ args \in { [ocr_results |-> [ i \in DOMAIN t |-> ChartFragments[t[i]] ]] :
                    t \in DistinctSeqsUpTo(DOMAIN ChartFragments, MaxFragments) }
    /\ result = << >>

MatchQuarters ==
    /\ pc = "call"
    /\ result' = match_quarters_with_numbers(args.ocr_results, BottomPercent,
                                             YTolerance, XTolerance)
    /\ pc' = "done"
    /\ UNCHANGED <<args, pipeline_vars>>

NextMatch == MatchQuarters

SpecMatch == InitMatch /\ [][NextMatch]_vars

----------------------------------------------------------------------------
(* Claims about the coordinate matcher                                     *)

QuarterBoxesOfCall == find_quarters_at_bottom(args.ocr_results, BottomPercent)

AtOrBelowCenter(quarter_box, f) ==
    2 * f.top + f.height >= 2 * quarter_box.top + quarter_box.height

\* the number in the text of f: where it starts among the characters left
\* after commas and minus signs are dropped, its digits before the point,
\* its digits after the point, and its digits together
ClaimNumberStart(f) ==
    Leftmost({ p \in DOMAIN RemoveSeparators(f.text) : IsDigit(RemoveSeparators(f.text)[p]) })

ClaimWholeDigits(f) == DigitRun(RemoveSeparators(f.text), ClaimNumberStart(f))

ClaimPlaces(f) ==
    IF At(RemoveSeparators(f.text), ClaimNumberStart(f) + ClaimWholeDigits(f)) = "."
    THEN DigitRun(RemoveSeparators(f.text), ClaimNumberStart(f) + ClaimWholeDigits(f) + 1)
    ELSE 0

ClaimDigits(f) ==
    SubSeq(RemoveSeparators(f.text), ClaimNumberStart(f),
           ClaimNumberStart(f) + ClaimWholeDigits(f) - 1)
      \o SubSeq(RemoveSeparators(f.text),
                ClaimNumberStart(f) + ClaimWholeDigits(f) + 1,
                ClaimNumberStart(f) + ClaimWholeDigits(f) + ClaimPlaces(f))

\* 2000 * 2^43 - 1: 2000 - 2^-43 lies halfway between 2000 and the float
\* before it, and a decimal number halfway goes to 2000
HalfwayTo2000 == Trim(BigMinus(BigShiftLeft(BigOf(2000), 43), << 1 >>, 0))

\* the value of the number of f, the float nearest to its decimal digits, is
\* at least 2000: digits / 10^places >= 2000 - 2^-43
DecimalAtLeast2000(f) ==
    /\ ClaimNumberStart(f) # 0
    /\ ~BigLess(BigShiftLeft(BigOfDigits(ClaimDigits(f)), 43),
                BigMul(HalfwayTo2000, BigPow10(ClaimPlaces(f))))

\* the texts of the chart with such a number, computed once
ChartTextsAtLeast2000 ==
    { ChartFragments[i].text : i \in { j \in DOMAIN ChartFragments :
                                         DecimalAtLeast2000(ChartFragments[j]) } }

ValueAtLeast2000(f) ==
    IF f.text \in DOMAIN ChartNumbers THEN f.text \in ChartTextsAtLeast2000
    ELSE DecimalAtLeast2000(f)

TooFarVertically(quarter_box, f) ==
    (2 * quarter_box.top + quarter_box.height) - (2 * f.top + f.height)
        > 2 * YTolerance

TooFarHorizontally(quarter_box, f) ==
    Abs((2 * f.left + f.width) - (2 * quarter_box.left + quarter_box.width))
        > 2 * XTolerance

FailsATest(quarter_box, f) ==
    \/ AtOrBelowCenter(quarter_box, f)
    \/ ValueAtLeast2000(f)
    \/ ~extract_number(f.text).found
    \/ extract_quarter_pattern(f.text) # << >>
    \/ TooFarVertically(quarter_box, f)
    \/ TooFarHorizontally(quarter_box, f)

SelectedFor(quarter_box) ==
    find_nearest_number_in_y_range(quarter_box, args.ocr_results,
                                   YTolerance, XTolerance)

CandidatesFor(quarter_box) ==
    Range(candidate_numbers(quarter_box, args.ocr_results, YTolerance, XTolerance))

\* C16: the number box selected for a quarter box fails none of the six
\* tests (at or below the quarter box's vertical center, value >= 2000, no
\* extractable number, text matching a quarter pattern, vertical center
\* difference above y_tolerance, horizontal center difference above
\* x_tolerance), and every fragment failing none of them is a candidate, so
\* that a quarter box with such a fragment gets a matched pair.
C16_OnlyQualifyingFragmentsAreCandidates ==
    pc = "done" =>
      /\ \A i \in DOMAIN result :
            ~FailsATest(result[i].quarter_box, result[i].number_box)
      /\ \A qi \in DOMAIN QuarterBoxesOfCall :
            LET quarter_box == QuarterBoxesOfCall[qi]
                candidates == CandidatesFor(quarter_box)
                selected == SelectedFor(quarter_box)
            IN /\ candidates
                    = { f \in Range(args.ocr_results) : ~FailsATest(quarter_box, f) }
               /\ selected.found <=> candidates # {}
               /\ selected.found =>
                    /\ selected.box \in candidates
                    /\ \E i \in DOMAIN result :
                          /\ SameCoordinates(result[i].quarter_box, quarter_box)
                          /\ result[i].number_box = selected.box

\* a pair was matched although the call also held a fragment right above
\* the quarter box whose value is 2000.0 and one at the quarter box's own height
C16_Witness ==
    /\ pc = "done"
    /\ Len(result) = 1
    /\ \E f, g \in Range(args.ocr_results) :
          /\ ValueAtLeast2000(f)
          /\ ~AtOrBelowCenter(result[1].quarter_box, f)
          /\ ~TooFarHorizontally(result[1].quarter_box, f)
          /\ AtOrBelowCenter(result[1].quarter_box, g)
          /\ extract_number(g.text).found
          /\ extract_quarter_pattern(g.text) = << >>
          /\ ~TooFarHorizontally(result[1].quarter_box, g)


\* horizontal and vertical center differences in pixels, doubled
ClaimXDiff2(quarter_box, f) ==
    Abs((2 * f.left + f.width) - (2 * quarter_box.left + quarter_box.width))

ClaimYDiff2(quarter_box, f) ==
    (2 * quarter_box.top + quarter_box.height) - (2 * f.top + f.height)

\* C17: among the candidates of one quarter box, a candidate whose x_diff
\* is 1px larger and whose y_diff is 500px smaller than another candidate's
\* is not the one selected, and the selected candidate has the smallest
\* x_diff of all, y_diff deciding only between equal x_diff values.
C17_HorizontalDominance ==
    pc = "done" =>
      \A i \in DOMAIN result :
        LET quarter_box == result[i].quarter_box
            selected == result[i].number_box
        IN /\ \A a \in CandidatesFor(quarter_box) :
                ( /\ ClaimXDiff2(quarter_box, selected)
                       = ClaimXDiff2(quarter_box, a) + 2 * 1
                  /\ ClaimYDiff2(quarter_box, a)
                       = ClaimYDiff2(quarter_box, selected) + 2 * 500 )
                => FALSE
           /\ \A c \in CandidatesFor(quarter_box) :
                \/ ClaimXDiff2(quarter_box, selected) < ClaimXDiff2(quarter_box, c)
                \/ /\ ClaimXDiff2(quarter_box, selected) = ClaimXDiff2(quarter_box, c)
                   /\ ClaimYDiff2(quarter_box, selected) <= ClaimYDiff2(quarter_box, c)


\* C18: the matched pairs returned for one image carry pairwise distinct
\* quarter labels.
C18_OnePairPerQuarterLabel ==
    pc = "done" =>
      \A i, j \in DOMAIN result :
        result[i].quarter = result[j].quarter => i = j

----------------------------------------------------------------------------
(* extract_quarter_pattern on its own                                      *)

MaxPieces == 2

\* pieces of OCR text: the five shapes, their variants, and text that is
\* no quarter label
TextPieces ==
    { << "Q", "1", "'", "1", "7" >>,
      << "Q", "2", " ", "2", "0", "1", "8" >>,
      << "Q", "3", "\r", "", " ", "2", "0", "1", "9" >>,
      << "Q", "1", "1", "4" >>,
      << "0", "1", "1", "4" >>,
      << "Q", "1", "i", "7", "y" >>,
      << "x", "0", "2", "1", "4" >>,
      << "O", "3", "2", "5" >>,
      << "Q", "4", "l", "6", "i" >>,
      << "Q", "I", "1", "7" >>,
      << "q", "3", "'", "0", "5" >>,
      << "Q", "5", "'", "1", "7" >>,
      << "Q", "1" >>,
      << "1", "2" >>,
      << "E", "P", "S" >>,
      << " " >> }

RECURSIVE Concatenations(_, _)
Concatenations(S, n) ==
    IF n = 0 THEN {}
    ELSE S \cup { t \o x : t \in Concatenations(S, n - 1), x \in S }

\* every text already in the form Q{1-4}'{YY}
CanonicalTexts ==
    { << "Q", q, "'", y1, y2 >> :
        q \in {"1", "2", "3", "4"}, y1 \in Range(DigitChars), y2 \in Range(DigitChars) }

InitQuarter ==
    /\ AtRest
    /\ pc = "call"
    /\ args \in { [text |-> t] :
                    t \in Concatenations(TextPieces, MaxPieces) \cup CanonicalTexts }
    /\ result = << >>

ExtractQuarter ==
    /\ pc = "call"
    /\ result' = extract_quarter_pattern(args.text)
    /\ pc' = "done"
    /\ UNCHANGED <<args, pipeline_vars>>

NextQuarter == ExtractQuarter

SpecQuarter == InitQuarter /\ [][NextQuarter]_vars

----------------------------------------------------------------------------
(* Claims about extract_quarter_pattern                                    *)

\* the label the k-th shape reads at its leftmost occurrence in the text
\* after the two substitutions, << >> when the shape does not occur
ShapeLabelIn(k, n) ==
    CASE k = 1 -> ApostropheLabel(n, Leftmost({ p \in DOMAIN n : MatchesApostrophe(n, p) }))
      [] k = 2 -> FullYearLabel(n, Leftmost({ p \in DOMAIN n : MatchesFullYear(n, p) }))
      [] k = 3 -> GuardedLabel(n, Leftmost({ p \in DOMAIN n : MatchesConcatenated(n, p) }))
      [] k = 4 -> GuardedLabel(n, Leftmost({ p \in DOMAIN n : MatchesZero(n, p) }))
      [] k = 5 -> MisreadLabel(n, Leftmost({ p \in DOMAIN n : MatchesMisread(n, p) }))

ShapeLabel(k, text) == ShapeLabelIn(k, normalize_quarter_text(text))

IsCanonicalLabel(t) ==
    /\ Len(t) = 5
    /\ t[1] = "Q" /\ t[2] \in {"1", "2", "3", "4"} /\ t[3] = "'"
    /\ t[4] \in Range(DigitChars) /\ t[5] \in Range(DigitChars)

ExampleOutputs ==
    { << << "Q", "1", "'", "1", "7" >>,           << "Q", "1", "'", "1", "7" >> >>,
      << << "Q", "2", " ", "2", "0", "1", "8" >>, << "Q", "2", "'", "1", "8" >> >>,
      << << "Q", "1", "1", "4" >>,                << "Q", "1", "'", "1", "4" >> >>,
      << << "0", "1", "1", "4" >>,                << "Q", "1", "'", "1", "4" >> >>,
      << << "Q", "1", "i", "7", "y" >>,           << "Q", "1", "'", "1", "7" >> >> }

\* C19: the result is the label read by the first of the five shapes, in
\* their stated order, that occurs in the text; "Q1'17", "Q2 2018", "Q114",
\* "0114" and "Q1i7y" give "Q1'17", "Q2'18", "Q1'14", "Q1'14" and "Q1'17";
\* the result is null when no shape occurs, and every other result has the
\* form Q{1-4}'{two digits}.
C19_ShapesInPriorityOrder ==
    pc = "done" =>
      /\ \A k \in 1..5 :
            ( /\ ShapeLabel(k, args.text) # << >>
              /\ \A j \in 1..(k - 1) : ShapeLabel(j, args.text) = << >> )
            => result = ShapeLabel(k, args.text)
      /\ \A ex \in ExampleOutputs : args.text = ex[1] => result = ex[2]
      /\ (\A k \in 1..5 : ShapeLabel(k, args.text) = << >>) => result = << >>
      /\ result # << >> => IsCanonicalLabel(result)

\* a text holding a concatenated label before an apostrophe label was read
\* as the apostrophe label
C19_Witness ==
    /\ pc = "done"
    /\ ShapeLabel(1, args.text) # << >>
    /\ ShapeLabel(3, args.text) # << >>
    /\ ShapeLabel(3, args.text) # ShapeLabel(1, args.text)
    /\ \E p \in DOMAIN normalize_quarter_text(args.text) :
          /\ MatchesConcatenated(normalize_quarter_text(args.text), p)
          /\ \A r \in 1..p : ~MatchesApostrophe(normalize_quarter_text(args.text), r)
    /\ result = ShapeLabel(1, args.text)

\* C20: for every text already of the form Q{1-4}'{YY}, with YY from 00 to
\* 99, extract_quarter_pattern returns the text itself, and applied to that
\* result it returns the same label again.
C20_IdempotentOnCanonicalLabels ==
    (pc = "done" /\ IsCanonicalLabel(args.text)) =>
      /\ result = args.text
      /\ extract_quarter_pattern(result) = result

C20_Witness ==
    /\ pc = "done"
    /\ args.text = << "Q", "4", "'", "0", "0" >>
    /\ result = << "Q", "4", "'", "0", "0" >>

----------------------------------------------------------------------------
(* Claims about the extraction records and the wide cells                  *)

\* C21: every extraction record has is_estimate true exactly when its
\* bar_color is 'light', false when it is 'dark'.
C21_EstimateIffLightBar ==
    \A i \in DOMAIN all_long_results :
        all_long_results[i].is_estimate
            <=> (all_long_results[i].bar_color = "light")


\* the records of all_long_results that a cell of (d, qt) can come from
RecordsFor(d, qt) ==
    { i \in DOMAIN all_long_results :
        /\ all_long_results[i].report_date = d
        /\ all_long_results[i].quarter = qt }

\* C22: in the wide table kept by the run, every quarter cell is the empty
\* string, a plain numeric string or a numeric string with '*'; a quarter
\* without a record for the row's date is the empty string, never an absent
\* or not-a-number value; and a cell written by this run carries '*' only
\* if a record of its date and quarter has bar_color 'light'.
C22_CellsAreStrings ==
    \A i \in DOMAIN current_df.rows :
      \A qt \in DOMAIN current_df.rows[i].cells :
        LET cell == current_df.rows[i].cells[qt]
            d == current_df.rows[i].Report_Date
        IN /\ cell.kind \in {"empty", "num"}
           /\ (cell.kind = "num" /\ cell.star /\ RecordsFor(d, qt) # {})
                => \E k \in RecordsFor(d, qt) :
                      all_long_results[k].bar_color = "light"

----------------------------------------------------------------------------
(* _parse_quarter_for_sort on the text of a label                          *)

\* the characters int() skips around a number, among those up to U+00FF:
\* space, \t, \n, \r, \f and (written raw below) U+000B, U+0085 and U+00A0;
\* U+001C to U+001F are not skipped
IsIntSpace(c) == c \in {" ", "\t", "\n", "\r", "\f", "", "", " "}

\* the text between the whitespace int() skips at both ends
StripForInt(s) ==
    IF \A i \in DOMAIN s : IsIntSpace(s[i]) THEN << >>
    ELSE SubSeq(s, MinOf({ i \in DOMAIN s : ~IsIntSpace(s[i]) }),
                   MaxOf({ i \in DOMAIN s : ~IsIntSpace(s[i]) }))

\* the text after the optional sign
Unsigned(s) == IF At(s, 1) \in {"+", "-"} THEN Tail(s) ELSE s

\* decimal digits, with single underscores between digits only
IsIntDigits(s) ==
    /\ s # << >>
    /\ IsDigit(s[1])
    /\ IsDigit(s[Len(s)])
    /\ \A i \in DOMAIN s : IsDigit(s[i]) \/ (s[i] = "_" /\ IsDigit(s[i - 1]))

\* whether int(s) returns; it raises ValueError otherwise
IntParses(s) == IsIntDigits(Unsigned(StripForInt(s)))

\* int(s) of a text that parses
IntOf(s) ==
    IF At(StripForInt(s), 1) = "-"
    THEN 0 - DigitsValue(SelectSeq(StripForInt(s), IsDigit))
    ELSE DigitsValue(SelectSeq(StripForInt(s), IsDigit))

\* the key that drops the century-independent part of the year
key_year_modulo_fifty(q_text, year_text) ==
    IF IntParses(q_text) /\ IntParses(year_text)
    THEN << 2000 + (IntOf(year_text) % 50), IntOf(q_text) >>
    ELSE << 0, 0 >>

\* (year, q_num), or (0, 0) when an int() raises ValueError
KeyOfParts(q_text, year_text) ==
    IF IntParses(q_text) /\ IntParses(year_text)
    THEN << 2000 + IntOf(year_text), IntOf(q_text) >>
    ELSE << 0, 0 >>

\* q_part, year_part = quarter.split("'") with the apostrophe at position p;
\* q_part[1:] drops the Q
KeyOfSplit(text, p) ==
    KeyOfParts(SubSeq(text, 2, p - 1), SubSeq(text, p + 1, Len(text)))

Apostrophes(text) == { p \in DOMAIN text : text[p] = "'" }

\* the function on the characters of the label; a split into other than two
\* parts and an index past the end raise, which returns (0, 0)
_parse_quarter_for_sort_text(text) ==
    IF Apostrophes(text) # {}
    THEN IF Cardinality(Apostrophes(text)) = 1
         THEN KeyOfSplit(text, Leftmost(Apostrophes(text)))
         ELSE << 0, 0 >>
    ELSE IF Len(text) < 2 THEN << 0, 0 >>
    ELSE KeyOfParts(SubSeq(text, 2, 2), SubSeq(text, 3, Min(4, Len(text))))

\* the labels the key is applied to: every canonical label, labels in the
\* concatenated form, texts whose parts int() still parses (whitespace
\* around the number, a sign, an underscore between digits) and texts that
\* give no key
SortKeyTexts ==
    CanonicalTexts
      \cup { << "Q", "1", "1", "4" >>, << "Q", "2", "9", "9" >>, << "Q" >>,
             << "E", "P", "S" >>, << "Q", "1", "'", "1", "4", "'" >>,
             << "Q", "1", "'" >>, << >>,
             << "Q", "1", "'", " ", "1", "4" >>, << "Q", "1", "'", "1", "4", "\n" >>,
             << "Q", "1", "'", " ", "1", "4", "" >>,
             << "Q", "1", "'", "", "1", "4" >>,
             << "Q", "1", "'", "-", "5" >>, << "Q", "1", "'", "+", "1", "4" >>,
             << "Q", "1", "'", "-", " ", "5" >>, << "Q", "-", "1", "'", "1", "4" >>,
             << "Q", "1", "'", "1", "_", "4" >>, << "Q", "1", "'", "_", "1", "4" >>,
             << "Q", "1", "'", "1", "_", "_", "4" >>, << "Q", "1", "'", "1", "4", "_" >>,
             << "Q", "1", "'", "2", "0", "1", "4" >>,
             << "Q", "1", " ", "4" >>, << "Q", "1", "-", "4" >>, << "Q", " ", "1", "4" >>,
             << "Q", "+", "1", "4" >>, << "Q", "1", "1", "_" >>,
             << "Q", "2", "0", "1", "4" >> }

InitSortKey ==
    /\ AtRest
    /\ pc = "call"
    /\ args \in { [quarter |-> t] : t \in SortKeyTexts }
    /\ result = << >>

ParseQuarterForSort ==
    /\ pc = "call"
    /\ result' = _parse_quarter_for_sort_text(args.quarter)
    /\ pc' = "done"
    /\ UNCHANGED <<args, pipeline_vars>>

NextSortKey == ParseQuarterForSort

SpecSortKey == InitSortKey /\ [][NextSortKey]_vars

\* the two digits of a canonical label as a number, and its quarter
LabelYY(t) == 10 * DigitVal(t[4]) + DigitVal(t[5])
LabelQ(t) == DigitVal(t[2])

\* C23: the key of Q{q}'{YY} is (2000+YY, q) for every YY < 50, and over all
\* q in 1..4 and YY in 00..99 no other label has the same key, so the label
\* can be recovered from the key.
C23_SortKeyInjective ==
    (pc = "done" /\ IsCanonicalLabel(args.quarter)) =>
      /\ LabelYY(args.quarter) < 50
            => result = << 2000 + LabelYY(args.quarter), LabelQ(args.quarter) >>
      /\ \A t \in CanonicalTexts :
            _parse_quarter_for_sort_text(t) = result => t = args.quarter
      /\ << "Q", DigitChars[result[2] + 1], "'",
            DigitChars[((result[1] - 2000) \div 10) + 1],
            DigitChars[((result[1] - 2000) % 10) + 1] >> = args.quarter

\* the key of a label of the upper half of the years was computed
C23_Witness ==
    /\ pc = "done"
    /\ args.quarter = << "Q", "3", "'", "7", "5" >>
    /\ result = << 2075, 3 >>

----------------------------------------------------------------------------
(* Further claims about the coordinate matcher                             *)

\* the fragments of the call that lie in the bottom band and read as a quarter
BandQuarterFragments ==
    { f \in Range(args.ocr_results) :
        /\ extract_quarter_pattern(f.text) # << >>
        /\ \A g \in Range(args.ocr_results) :
              10 * (f.top + f.height) >= (g.top + g.height) * (10 - BottomPercent)
        \* max_y is the largest bottom edge
    }

QualifyingFor(quarter_box) ==
    { f \in Range(args.ocr_results) : ~FailsATest(quarter_box, f) }

\* 40 * (10*x_diff^2 + 0.1*y_diff^2), with the differences doubled
ClaimDistance40(quarter_box, f) ==
    100 * ClaimXDiff2(quarter_box, f) * ClaimXDiff2(quarter_box, f)
      + ClaimYDiff2(quarter_box, f) * ClaimYDiff2(quarter_box, f)

\* C24: the result holds exactly one pair for each bottom-band quarter
\* fragment that has a qualifying candidate and none for the others; the
\* pair's number box is a qualifying candidate of minimum distance; the
\* pairs are in ascending order of the quarter boxes' left coordinate; and
\* every quarter box of a pair lies in the bottom band.
C24_OnePairPerMatchedQuarterBox ==
    pc = "done" =>
      /\ { result[i].quarter_box : i \in DOMAIN result }
            = { f \in BandQuarterFragments : QualifyingFor(f) # {} }
      /\ \A i, j \in DOMAIN result :
            result[i].quarter_box = result[j].quarter_box => i = j
      /\ \A i \in DOMAIN result :
            /\ result[i].number_box \in QualifyingFor(result[i].quarter_box)
            /\ \A c \in QualifyingFor(result[i].quarter_box) :
                  ClaimDistance40(result[i].quarter_box, result[i].number_box)
                    <= ClaimDistance40(result[i].quarter_box, c)
            /\ result[i].quarter = extract_quarter_pattern(result[i].quarter_box.text)
            /\ result[i].eps = extract_number(result[i].number_box.text)
      /\ \A i, j \in DOMAIN result :
            i < j => result[i].quarter_box.left <= result[j].quarter_box.left

\* two pairs were returned for quarter fragments that the OCR listed right
\* to left
C24_Witness ==
    /\ pc = "done"
    /\ Len(result) = 2
    /\ result[1].quarter_box.left < result[2].quarter_box.left
    /\ \E i, j \in DOMAIN args.ocr_results :
          /\ i < j
          /\ args.ocr_results[i] = result[2].quarter_box
          /\ args.ocr_results[j] = result[1].quarter_box

----------------------------------------------------------------------------
(* Further claims about process_directory                                  *)

\* the records of the image handled by the last iteration, when that
\* iteration converted and merged them
JustMerged == pc = "loop" /\ idx > 1 /\ outcomes[idx - 1] = "merged"

LastRecords == process_image(image_files[idx - 1], TRUE)

\* the first record of LastRecords with the quarter of record i
FirstWithQuarter(i) ==
    CHOOSE k \in DOMAIN LastRecords :
        /\ LastRecords[k].quarter = LastRecords[i].quarter
        /\ \A j \in 1..(k - 1) : LastRecords[j].quarter # LastRecords[i].quarter

\* C25: when records of one image share (report_date, quarter), the cell of
\* the converted row holds the number and the '*' marker of the first of
\* them in input order; the later ones leave no trace.
C25_FirstRecordWinsCollision ==
    JustMerged =>
      \A i \in DOMAIN LastRecords :
        RowOf(current_df, LastRecords[i].report_date).cells[LastRecords[i].quarter]
          = [kind |-> "num",
             eps |-> LastRecords[FirstWithQuarter(i)].eps,
             star |-> LastRecords[FirstWithQuarter(i)].bar_color = "light"]

\* an image with two records of one quarter, differing in value and colour,
\* was converted and merged
C25_Witness ==
    /\ JustMerged
    /\ \E i, j \in DOMAIN LastRecords :
          /\ i < j
          /\ LastRecords[i].quarter = LastRecords[j].quarter
          /\ LastRecords[i].eps # LastRecords[j].eps
          /\ LastRecords[i].bar_color # LastRecords[j].bar_color
          /\ FirstWithQuarter(j) = i


\* the lists that hold the fragments of s in another order
Reorderings(s) ==
    { [ i \in DOMAIN s |-> s[f[i]] ] : f \in Permutations(DOMAIN s) }

\* C26: the matched pairs do not depend on the order of the fragment list:
\* every reordering of the list gives the same pairs in the same order.
C26_FragmentOrderIrrelevant ==
    pc = "done" =>
      \A t \in Reorderings(args.ocr_results) :
        match_quarters_with_numbers(t, BottomPercent, YTolerance, XTolerance)
          = result


\* the run holds a record whose report_date is the raw filename
HoldsPlaceholderRecord ==
    \E i \in DOMAIN all_long_results : ~Parseable(all_long_results[i].report_date)

\* C27: a record gets the date of its filename's 8-digit token and the raw
\* filename only when the name has no such token; a run that holds a record
\* with such a placeholder loses that image alone: it still returns, no row
\* of either table carries the placeholder, and the rows merged from the
\* other images are returned in both tables.
C27_PlaceholderFailsItsImageAlone ==
    /\ \A i \in DOMAIN outcomes :
          outcomes[i] # "nodata" =>
            \A k \in DOMAIN process_image(image_files[i], TRUE) :
               process_image(image_files[i], TRUE)[k].report_date
                 = IF image_files[i].token \in Dates THEN image_files[i].token ELSE 0
    /\ HoldsPlaceholderRecord =>
          /\ pc # "aborted"
          /\ pc = "returned" =>
                /\ \A d \in DatesOf(ret_main) \cup ConfDates(ret_conf) : Parseable(d)
                /\ \A d \in MergedDates :
                      d \in DatesOf(ret_main) /\ d \in ConfDates(ret_conf)


\* the records of the image whose values survive in the row of date d
SurvivingRecords(d) == process_image(image_files[MaxOf(MergedFor(d))], TRUE)

\* C28: the Confidence of a date processed in the run is the one computed
\* from the records of the last-processed image of that date alone: the
\* records of superseded images of the date enter neither the bar score
\* nor the dark quarters compared for consistency.
C28_ConfidenceFromSurvivingImage ==
    pc = "returned" =>
      \A i \in DOMAIN conf_log :
        ConfOf(ret_conf, conf_log[i].Report_Date)
          = ConfidenceOf(ScoresOf(conf_log[i].Report_Date,
                                  SurvivingRecords(conf_log[i].Report_Date),
                                  ret_main))

\* the images selected by the run whose filename carries the date of a row
\* of the table loaded at the start of the run
SelectedAgain ==
    { k \in DOMAIN image_files :
        /\ ImageDate(k) \in Dates
        /\ ImageDate(k) \in DatesOf(existing_df) }

\* C29: an image whose filename-derived report date already has a row in the
\* table loaded at the start of the run is not selected for processing,
\* whatever the rest of its name ("20161209.png" or "20161209-6.png"), so
\* process_image is never called for it.
C29_LoadedDatesAreNotProcessed == SelectedAgain = {}

\* the records the run obtained from its k-th image
RecordsInRun(k) ==
    IF outcomes[k] = "nodata" THEN << >> ELSE process_image(image_files[k], TRUE)

\* lines 191-215 over the images of the run taken in the order `order`
\* (a sequence of positions of image_files): the merged wide table
RECURSIVE MergedInOrder(_, _)
MergedInOrder(order, df) ==
    IF order = << >> THEN df
    ELSE LET results == RecordsInRun(Head(order))
             new_df  == convert_to_wide_format(results)
         IN MergedInOrder(Tail(order),
                          IF results = << >> \/ ~new_df.ok THEN df
                          ELSE _merge_data(df, new_df.df))

\* all_long_results after the same loop
RECURSIVE LongInOrder(_)
LongInOrder(order) ==
    IF order = << >> THEN << >>
    ELSE RecordsInRun(Head(order)) \o LongInOrder(Tail(order))

\* lines 217-245: the two tables the run returns for that order, or
\* "raised" when the confidence calculation raises
TablesInOrder(order) ==
    LET current  == MergedInOrder(order, existing_df)
        long     == LongInOrder(order)
        new_conf == _calculate_new_confidence(long, current)
    IN IF IsEmpty(current)
       THEN << IF IsEmpty(existing_df) THEN empty_df ELSE existing_df,
               IF IsEmpty(existing_df) THEN empty_conf ELSE existing_confidence_df >>
       ELSE IF ~new_conf.ok THEN << "raised" >>
       ELSE << current, _merge_confidence(existing_confidence_df, new_conf.conf) >>

DistinctReportDates ==
    \A j, k \in DOMAIN image_files : j # k => ImageDate(j) # ImageDate(k)

\* C30: when the images of a run have pairwise distinct report dates, the
\* wide table and the confidence table it returns are the ones every other
\* processing order of the same images gives: same rows, same column order,
\* same Confidence values.
C30_ProcessingOrderIrrelevant ==
    (/\ pc = "returned"
     /\ image_files # << >>
     /\ DistinctReportDates)
      => \A order \in Permutations(DOMAIN image_files) :
            TablesInOrder(order) = << ret_main, ret_conf >>

\* a run that merged two images of different dates, the later one first in
\* some order, into a table of two rows with a confidence for each
C30_Witness ==
    /\ pc = "returned"
    /\ Len(image_files) = 2
    /\ DistinctReportDates
    /\ outcomes = << "merged", "merged" >>
    /\ Len(ret_main.rows) = 2
    /\ Len(ret_conf) = 2
    /\ RowOf(ret_main, ImageDate(1)).cells # RowOf(ret_main, ImageDate(2)).cells

============================================================================
